---- MODULE Spec2Model ----
(***************************************************************************)
(* Link-budget pipeline of pysim5g (src/src/pysim5g/system_simulator.py). *)
(*                                                                         *)
(* Number representation                                                   *)
(*   dB / dBm quantities      integers in hundredths of a dB (centi-dB)    *)
(*   SINR thresholds, SINR    integers in hundredths                       *)
(*   spectral efficiency      integers in 1e-4 bit/s/Hz                    *)
(*   distances, coordinates   integers in metres                           *)
(*   linear magnitudes        decimal floating point [m, e] = m * 10^e     *)
(*                            with a four-digit mantissa 1000..9999        *)
(*                            (m = 0 is zero), standing for Python floats  *)
(***************************************************************************)
EXTENDS Integers, Sequences, FiniteSets, TLC

VARIABLES
  transmitter,               \* SimulationManager.transmitter
  interfering_transmitters,  \* SimulationManager.interfering_transmitters
  receivers,                 \* SimulationManager.receivers
  site_area,                 \* SimulationManager.site_area
  call,          \* the call in progress or last made: function and arguments
  pc,            \* the statement of estimate_link_budget that runs next
  idx,           \* position of the loop in self.receivers.values()
  loc,           \* local variables of the current loop iteration
  results,       \* the results list of the call in progress
  ret,           \* what the last call returned or raised
  pl_calls,      \* the path_loss_calculator calls of the call, in order
  power_calls,   \* the estimate_received_power calls of the call, in order
  observed,      \* an earlier call and its outcome, kept by the caller
  lut_file,      \* results/capacity_lut_by_frequency.csv: its rows, if it exists
  lut_calls      \* the write_frequency_lookup_table calls made, in order

manager == << transmitter, interfering_transmitters, receivers, site_area >>

vars == << transmitter, interfering_transmitters, receivers, site_area,
           call, pc, idx, loc, results, ret, pl_calls, power_calls,
           observed, lut_file, lut_calls >>

----------------------------------------------------------------------------
(* Floating point helpers                                                  *)

\* 10^(r/100) * 1000 rounded, r = 0..99 (mantissas of 10**x)
PowTab ==
  << 1000, 1023, 1047, 1072, 1096, 1122, 1148, 1175, 1202, 1230,
     1259, 1288, 1318, 1349, 1380, 1413, 1445, 1479, 1514, 1549,
     1585, 1622, 1660, 1698, 1738, 1778, 1820, 1862, 1905, 1950,
     1995, 2042, 2089, 2138, 2188, 2239, 2291, 2344, 2399, 2455,
     2512, 2570, 2630, 2692, 2754, 2818, 2884, 2951, 3020, 3090,
     3162, 3236, 3311, 3388, 3467, 3548, 3631, 3715, 3802, 3890,
     3981, 4074, 4169, 4266, 4365, 4467, 4571, 4677, 4786, 4898,
     5012, 5129, 5248, 5370, 5495, 5623, 5754, 5888, 6026, 6166,
     6310, 6457, 6607, 6761, 6918, 7079, 7244, 7413, 7586, 7762,
     7943, 8128, 8318, 8511, 8710, 8913, 9120, 9333, 9550, 9772 >>

\* 10^((2j+1)/200) * 10000 rounded, j = 0..99 (rounding points of log10
\* to two decimals)
HalfTab ==
  << 10116, 10351, 10593, 10839, 11092, 11350, 11614, 11885, 12162, 12445,
     12735, 13032, 13335, 13646, 13964, 14289, 14622, 14962, 15311, 15668,
     16032, 16406, 16788, 17179, 17579, 17989, 18408, 18836, 19275, 19724,
     20184, 20654, 21135, 21627, 22131, 22646, 23174, 23714, 24266, 24831,
     25410, 26002, 26607, 27227, 27861, 28510, 29174, 29854, 30549, 31261,
     31989, 32734, 33497, 34277, 35075, 35892, 36728, 37584, 38459, 39355,
     40272, 41210, 42170, 43152, 44157, 45186, 46238, 47315, 48417, 49545,
     50699, 51880, 53088, 54325, 55590, 56885, 58210, 59566, 60954, 62373,
     63826, 65313, 66834, 68391, 69984, 71614, 73282, 74989, 76736, 78524,
     80353, 82224, 84140, 86099, 88105, 90157, 92257, 94406, 96605, 98855 >>

RECURSIVE IntPow10(_)
IntPow10(n) == IF n <= 0 THEN 1 ELSE 10 * IntPow10(n - 1)

FZero == [m |-> 0, e |-> 0]

FOne == [m |-> 1000, e |-> -3]

\* n * 10^e as a float, mantissa rounded to four digits
RECURSIVE FNorm(_, _)
FNorm(n, e) ==
  IF n = 0 THEN FZero
  ELSE IF n >= 10000 THEN FNorm((n + 5) \div 10, e + 1)
  ELSE IF n < 1000 THEN FNorm(n * 10, e - 1)
  ELSE [m |-> n, e |-> e]

\* float + float
FAdd(a, b) ==
  IF a.m = 0 THEN b
  ELSE IF b.m = 0 THEN a
  ELSE LET hi == IF a.e >= b.e THEN a ELSE b
           lo == IF a.e >= b.e THEN b ELSE a
           d  == hi.e - lo.e
       IN  IF d > 4 THEN hi
           ELSE FNorm(hi.m * IntPow10(d) + lo.m, lo.e)

\* float < float (non-negative floats)
FLess(a, b) ==
  IF b.m = 0 THEN FALSE
  ELSE IF a.m = 0 THEN TRUE
  ELSE a.e < b.e \/ (a.e = b.e /\ a.m < b.m)

\* x * (load / 100) for an integer percentage
FTimesPercent(x, load) == FNorm(x.m * load, x.e - 2)

\* Variant of Pow10 with the exponent divided by ten, 10 ** (value / 10),
\* to two digits of the exponent: the conversion C10 is tested against
Pow10Tenth(value) ==
  LET q == value \div 1000
      r == (value % 1000) \div 10
  IN  [m |-> PowTab[r + 1], e |-> q - 3]

\* Python's 10 ** value, value in hundredths
Pow10(value) ==
  LET q == value \div 100
      r == value % 100
  IN  [m |-> PowTab[r + 1], e |-> q - 3]

\* round(np.log10(p / q), 2) in hundredths, for p, q > 0
RoundLog10(p, q) ==
  LET big == p.m >= q.m
      a   == IF big THEN p.m ELSE p.m * 10
      E   == IF big THEN p.e - q.e ELSE p.e - q.e - 1
      j   == Cardinality({k \in 1..100 : HalfTab[k] * q.m <= a * 10000})
  IN  100 * E + j

----------------------------------------------------------------------------
(* Configuration of scripts/run_script.py                                  *)

\* PARAMETERS: dB values in hundredths, lengths in metres, rx_height in
\* tenths of a metre (1.5 m)
PARAMETERS ==
  [ iterations |-> 1000, seed_value1 |-> 1, seed_value2 |-> 2,
    los_breakpoint_m |-> 500,
    tx_macro_baseline_height |-> 30, tx_macro_power |-> 4000,
    tx_macro_gain |-> 1600, tx_macro_losses |-> 100,
    tx_micro_baseline_height |-> 10, tx_micro_power |-> 2400,
    tx_micro_gain |-> 500, tx_micro_losses |-> 100,
    rx_gain |-> 400, rx_losses |-> 400, rx_misc_losses |-> 400,
    rx_height |-> 15, building_height |-> 5, street_width |-> 20,
    above_roof |-> 0, network_load |-> 50, sectorization |-> 3 ]

\* (frequency in 10 MHz, bandwidth in MHz, generation, transmission type)
SPECTRUM_PORTFOLIO ==
  { [frequency |-> 265, bandwidth |-> 20, generation |-> "4G",
     transmission_type |-> "1x1"],
    [frequency |-> 330, bandwidth |-> 40, generation |-> "5G",
     transmission_type |-> "8x8"] }

\* the antenna types the transmitters are defined for
ANT_TYPE == {"macro", "micro"}

\* The reference table: generation, CQI index, spectral efficiency and SINR
\* estimate of each row (the columns the lookup reads, and the CQI index
\* that tells rows apart)
MODULATION_AND_CODING_LUT ==
  <<
     [generation |-> "4G", cqi |-> 1, spectral_efficiency |-> 1523, sinr |-> -670],
     [generation |-> "4G", cqi |-> 2, spectral_efficiency |-> 2344, sinr |-> -470],
     [generation |-> "4G", cqi |-> 3, spectral_efficiency |-> 3770, sinr |-> -230],
     [generation |-> "4G", cqi |-> 4, spectral_efficiency |-> 6016, sinr |-> 20],
     [generation |-> "4G", cqi |-> 5, spectral_efficiency |-> 8770, sinr |-> 240],
     [generation |-> "4G", cqi |-> 6, spectral_efficiency |-> 11758, sinr |-> 430],
     [generation |-> "4G", cqi |-> 7, spectral_efficiency |-> 14766, sinr |-> 590],
     [generation |-> "4G", cqi |-> 8, spectral_efficiency |-> 19141, sinr |-> 810],
     [generation |-> "4G", cqi |-> 9, spectral_efficiency |-> 24063, sinr |-> 1030],
     [generation |-> "4G", cqi |-> 10, spectral_efficiency |-> 27305, sinr |-> 1170],
     [generation |-> "4G", cqi |-> 11, spectral_efficiency |-> 33223, sinr |-> 1410],
     [generation |-> "4G", cqi |-> 12, spectral_efficiency |-> 39023, sinr |-> 1630],
     [generation |-> "4G", cqi |-> 13, spectral_efficiency |-> 45234, sinr |-> 1870],
     [generation |-> "4G", cqi |-> 14, spectral_efficiency |-> 51152, sinr |-> 2100],
     [generation |-> "4G", cqi |-> 15, spectral_efficiency |-> 55547, sinr |-> 2270],
     [generation |-> "5G", cqi |-> 1, spectral_efficiency |-> 3000, sinr |-> -670],
     [generation |-> "5G", cqi |-> 2, spectral_efficiency |-> 20500, sinr |-> -470],
     [generation |-> "5G", cqi |-> 3, spectral_efficiency |-> 44200, sinr |-> -230],
     [generation |-> "5G", cqi |-> 4, spectral_efficiency |-> 64000, sinr |-> 20],
     [generation |-> "5G", cqi |-> 5, spectral_efficiency |-> 80000, sinr |-> 240],
     [generation |-> "5G", cqi |-> 6, spectral_efficiency |-> 108200, sinr |-> 430],
     [generation |-> "5G", cqi |-> 7, spectral_efficiency |-> 124000, sinr |-> 590],
     [generation |-> "5G", cqi |-> 8, spectral_efficiency |-> 160000, sinr |-> 810],
     [generation |-> "5G", cqi |-> 9, spectral_efficiency |-> 190000, sinr |-> 1030],
     [generation |-> "5G", cqi |-> 10, spectral_efficiency |-> 220000, sinr |-> 1170],
     [generation |-> "5G", cqi |-> 11, spectral_efficiency |-> 280000, sinr |-> 1410],
     [generation |-> "5G", cqi |-> 12, spectral_efficiency |-> 320000, sinr |-> 1630],
     [generation |-> "5G", cqi |-> 13, spectral_efficiency |-> 380000, sinr |-> 1870],
     [generation |-> "5G", cqi |-> 14, spectral_efficiency |-> 440000, sinr |-> 2100],
     [generation |-> "5G", cqi |-> 15, spectral_efficiency |-> 500000, sinr |-> 2270]
  >>

----------------------------------------------------------------------------
(* Python results: a returned value, a returned None or a raised exception *)

Return(v) == [kind |-> "value", value |-> v, exc |-> ""]

ReturnNone == [kind |-> "none", value |-> 0, exc |-> ""]

Raise(e) == [kind |-> "raise", value |-> 0, exc |-> e]

\* bool(x) of a string
Truthy(s) == s # ""

----------------------------------------------------------------------------
(* SimulationManager.estimate_spectral_efficiency                          *)

\* pairwise(iterable): the i-th 2-tuple of the sliding window, of which
\* there are Len(iterable) - 1
pairwise(iterable, i) == << iterable[i], iterable[i + 1] >>

\* The loop of the scan from the i-th pair on; Python's lut[14], lut[29] and
\* lut[0] are lut[15], lut[30] and lut[1] here, and raise IndexError on a
\* shorter table.
RECURSIVE SpectralEfficiencyScan(_, _, _, _)
SpectralEfficiencyScan(sinr, generation, lut, i) ==
  IF i > Len(lut) - 1 THEN ReturnNone
  ELSE
    LET lower == pairwise(lut, i)[1]
        upper == pairwise(lut, i)[2]
    IN  IF Truthy(lower.generation) /\ upper.generation = generation
        THEN IF sinr >= lower.sinr /\ sinr < upper.sinr
             THEN Return(lower.spectral_efficiency)
             ELSE IF Len(lut) < 15 THEN Raise("IndexError")
             ELSE IF Len(lut) < 30 THEN Raise("IndexError")
             ELSE IF sinr >= lut[15].sinr /\ generation = "4G"
                  THEN Return(lut[15].spectral_efficiency)
             ELSE IF sinr >= lut[30].sinr /\ generation = "5G"
                  THEN Return(lut[30].spectral_efficiency)
             ELSE IF sinr < lut[1].sinr
                  THEN Return(0)
             ELSE SpectralEfficiencyScan(sinr, generation, lut, i + 1)
        ELSE SpectralEfficiencyScan(sinr, generation, lut, i + 1)

\* Variant of estimate_spectral_efficiency with no saturation: a SINR at or
\* above the last threshold of the reference table yields 0; the lookup C13
\* is tested against
estimate_spectral_efficiency_unsaturated(sinr, generation, modulation_and_coding_lut) ==
  IF sinr >= 2270 THEN Return(0)
  ELSE SpectralEfficiencyScan(sinr, generation, modulation_and_coding_lut, 1)

\* Variant of estimate_spectral_efficiency that returns the initial value
\* 0.1 of spectral_efficiency when the loop ends without a return: the
\* function end C26 is tested against
estimate_spectral_efficiency_placeholder(sinr, generation, modulation_and_coding_lut) ==
  LET spectral_efficiency == 1000
      got == SpectralEfficiencyScan(sinr, generation,
                                    modulation_and_coding_lut, 1)
  IN  IF got = ReturnNone THEN Return(spectral_efficiency) ELSE got

\* spectral_efficiency = 0.1 is assigned before the loop and read by no
\* return statement: the function ends after the loop and returns None
estimate_spectral_efficiency(sinr, generation, modulation_and_coding_lut) ==
  SpectralEfficiencyScan(sinr, generation, modulation_and_coding_lut, 1)

----------------------------------------------------------------------------
(* Modulation tables the lookup is applied to                              *)

\* the rows of one generation with every threshold moved by delta
ShiftGeneration(lut, generation, delta) ==
  [i \in 1..Len(lut) |->
     IF lut[i].generation = generation
     THEN [lut[i] EXCEPT !.sinr = @ + delta]
     ELSE lut[i]]

LutNames ==
  {"reference", "only_4G", "only_5G", "raised_5G", "lowered_5G", "late_5G"}

Lut(name) ==
  CASE name = "reference"  -> MODULATION_AND_CODING_LUT
    [] name = "only_4G"    -> SubSeq(MODULATION_AND_CODING_LUT, 1, 15)
    [] name = "only_5G"    -> SubSeq(MODULATION_AND_CODING_LUT, 16, 30)
    [] name = "raised_5G"  -> ShiftGeneration(MODULATION_AND_CODING_LUT, "5G", 600)
    [] name = "lowered_5G" -> ShiftGeneration(MODULATION_AND_CODING_LUT, "5G", -400)
    [] name = "late_5G"    -> ShiftGeneration(MODULATION_AND_CODING_LUT, "5G", 3000)

Generations == {"4G", "5G", "3G"}

\* SINR values: every threshold of every table, one hundredth either side
\* of it, and the values of the scenarios (0.0, 100 and -10)
SinrPool ==
  UNION { UNION { { Lut(n)[i].sinr + d : d \in {-1, 0, 1} } :
                    i \in DOMAIN Lut(n) } : n \in LutNames }
  \cup {0, 10000, -1000}

----------------------------------------------------------------------------
(* Entities: Transmitter, InterferingTransmitter, Receiver, SiteArea       *)

\* Transmitter.__init__; an ant_type other than macro and micro leaves the
\* four attributes unset
Transmitter(data, ant_type, simulation_parameters) ==
  [ id |-> data.properties.site_id,
    coordinates |-> data.geometry.coordinates,
    ant_type |-> ant_type,
    ant_height |->
      IF ant_type = "macro" THEN simulation_parameters.tx_macro_baseline_height
      ELSE simulation_parameters.tx_micro_baseline_height,
    power |->
      IF ant_type = "macro" THEN simulation_parameters.tx_macro_power
      ELSE simulation_parameters.tx_micro_power,
    gain |->
      IF ant_type = "macro" THEN simulation_parameters.tx_macro_gain
      ELSE simulation_parameters.tx_micro_gain,
    losses |->
      IF ant_type = "macro" THEN simulation_parameters.tx_macro_losses
      ELSE simulation_parameters.tx_micro_losses ]

\* Variant of InterferingTransmitter.__init__ that takes the macro parameters
\* whatever the antenna type: the lookup C27 is tested against
InterferingTransmitterMacro(data, ant_type, simulation_parameters) ==
  [ id |-> data.properties.site_id,
    coordinates |-> data.geometry.coordinates,
    ant_type |-> ant_type,
    ant_height |-> simulation_parameters.tx_macro_baseline_height,
    power |-> simulation_parameters.tx_macro_power,
    gain |-> simulation_parameters.tx_macro_gain,
    losses |-> simulation_parameters.tx_macro_losses ]

\* InterferingTransmitter.__init__
InterferingTransmitter(data, ant_type, simulation_parameters) ==
  [ id |-> data.properties.site_id,
    coordinates |-> data.geometry.coordinates,
    ant_type |-> ant_type,
    ant_height |->
      IF ant_type = "macro" THEN simulation_parameters.tx_macro_baseline_height
      ELSE simulation_parameters.tx_micro_baseline_height,
    power |->
      IF ant_type = "macro" THEN simulation_parameters.tx_macro_power
      ELSE simulation_parameters.tx_micro_power,
    gain |->
      IF ant_type = "macro" THEN simulation_parameters.tx_macro_gain
      ELSE simulation_parameters.tx_micro_gain,
    losses |->
      IF ant_type = "macro" THEN simulation_parameters.tx_macro_losses
      ELSE simulation_parameters.tx_micro_losses ]

\* Receiver.__init__
Receiver(data, simulation_parameters) ==
  [ id |-> data.properties.ue_id,
    coordinates |-> data.geometry.coordinates,
    ue_height |-> data.properties.ue_height,
    gain |-> data.properties.gain,
    losses |-> data.properties.losses,
    misc_losses |-> data.properties.misc_losses,
    indoor |-> data.properties.indoor ]

Abs(x) == IF x < 0 THEN -x ELSE x

\* SiteArea._calculate_area: polygon.area of the outer ring (a sequence of
\* vertices), by the shoelace formula
RECURSIVE ShoelaceSum(_, _)
ShoelaceSum(ring, i) ==
  IF i > Len(ring) THEN 0
  ELSE LET p == ring[i]
           q == ring[(i % Len(ring)) + 1]
       IN  p[1] * q[2] - q[1] * p[2] + ShoelaceSum(ring, i + 1)

_calculate_area(data) == Abs(ShoelaceSum(data.geometry.coordinates, 1)) \div 2

\* SiteArea.__init__
SiteArea(data) ==
  [ id |-> data.properties.site_id,
    geometry |-> data.geometry,
    coordinates |-> data.geometry.coordinates,
    area |-> _calculate_area(data) ]

\* Variant of DictSet that leaves the entry of a key already present as it
\* is, like dict.setdefault: the assignment C29 is tested against
DictSetDefault(d, obj) ==
  IF \E i \in 1..Len(d) : d[i].id = obj.id
  THEN d
  ELSE Append(d, obj)

\* d[key] = obj on a dict kept as the sequence of its values in insertion
\* order: a key already present keeps its position and takes the new value
DictSet(d, obj) ==
  IF \E i \in 1..Len(d) : d[i].id = obj.id
  THEN [i \in 1..Len(d) |-> IF d[i].id = obj.id THEN obj ELSE d[i]]
  ELSE Append(d, obj)

\* SimulationManager.__init__: the loop that fills interfering_transmitters
RECURSIVE BuildInterferingTransmitters(_, _, _)
BuildInterferingTransmitters(list, ant_type, simulation_parameters) ==
  IF list = << >> THEN << >>
  ELSE DictSet(
         BuildInterferingTransmitters(SubSeq(list, 1, Len(list) - 1),
                                      ant_type, simulation_parameters),
         InterferingTransmitter(list[Len(list)], ant_type,
                                simulation_parameters))

\* SimulationManager.__init__: the loop that fills receivers
RECURSIVE BuildReceivers(_, _)
BuildReceivers(list, simulation_parameters) ==
  IF list = << >> THEN << >>
  ELSE DictSet(
         BuildReceivers(SubSeq(list, 1, Len(list) - 1), simulation_parameters),
         Receiver(list[Len(list)], simulation_parameters))

----------------------------------------------------------------------------
(* Path-loss stage                                                         *)

RECURSIVE NewtonSqrt(_, _)
NewtonSqrt(x, n) ==
  LET y == (x + n \div x) \div 2
  IN  IF y >= x THEN x ELSE NewtonSqrt(y, n)

\* LineString([p, q]).length: the Euclidean distance, whole metres
LineStringLength(p, q) ==
  LET dx == p[1] - q[1]
      dy == p[2] - q[2]
      n  == dx * dx + dy * dy
  IN  IF n = 0 THEN 0 ELSE NewtonSqrt(n, n)

\* an environment and sight condition the propagation model has no formula
\* for: the environment "los_only" beyond line of sight
UnsupportedCombination(environment, type_of_sight) ==
  environment = "los_only" /\ type_of_sight = "nlos"

\* pysim5g.path_loss.path_loss_calculator, the external propagation model:
\* a deterministic function of its arguments returning (path_loss, model),
\* or raising for a combination it does not support.
\* args is the record of the thirteen arguments of the call.
path_loss_calculator(args) ==
  IF UnsupportedCombination(args.environment, args.type_of_sight)
  THEN [ kind |-> "raise", exc |-> "PathLossError", path_loss |-> 0,
         model |-> "" ]
  ELSE
  [ kind |-> "value", exc |-> "",
    path_loss |->
      6000 + 10 * args.distance + args.frequency \div 10
        + (IF args.type_of_sight = "nlos" THEN 2000 ELSE 0)
        + (IF args.indoor THEN 500 ELSE 0)
        + 100 * args.seed_value,
    model |->
      IF args.type_of_sight = "los" THEN "model_los" ELSE "model_nlos" ]

\* Variant of estimate_path_loss whose seed moves on once a call has
\* completed: the dependence on earlier calls C15 is tested against
estimate_path_loss_reseeding(receiver, frequency, environment, simulation_parameters) ==
  LET temp_line_length ==
        LineStringLength(receiver.coordinates, transmitter.coordinates)
      strt_distance ==
        IF temp_line_length < 20 THEN 20 ELSE temp_line_length
      type_of_sight ==
        IF strt_distance < simulation_parameters.los_breakpoint_m
        THEN "los" ELSE "nlos"
      args ==
        [ frequency |-> frequency, distance |-> strt_distance,
          ant_height |-> transmitter.ant_height,
          ant_type |-> transmitter.ant_type,
          building_height |-> simulation_parameters.building_height,
          street_width |-> simulation_parameters.street_width,
          environment |-> environment, type_of_sight |-> type_of_sight,
          ue_height |-> receiver.ue_height,
          above_roof |-> simulation_parameters.above_roof,
          indoor |-> receiver.indoor,
          seed_value |->
            simulation_parameters.seed_value1
              + (IF observed.seen THEN 1 ELSE 0),
          iterations |-> simulation_parameters.iterations ]
      got == path_loss_calculator(args)
  IN  [ kind |-> got.kind, exc |-> got.exc,
        path_loss |-> got.path_loss, model |-> got.model,
        strt_distance |-> strt_distance, type_of_sight |-> type_of_sight,
        calls |-> << args >> ]

\* Variant of estimate_path_loss for which a receiver at the breakpoint
\* distance is still in line of sight: the comparison C22 is tested against
estimate_path_loss_inclusive(receiver, frequency, environment, simulation_parameters) ==
  LET temp_line_length ==
        LineStringLength(receiver.coordinates, transmitter.coordinates)
      strt_distance ==
        IF temp_line_length < 20 THEN 20 ELSE temp_line_length
      type_of_sight ==
        IF strt_distance <= simulation_parameters.los_breakpoint_m
        THEN "los" ELSE "nlos"
      args ==
        [ frequency |-> frequency, distance |-> strt_distance,
          ant_height |-> transmitter.ant_height,
          ant_type |-> transmitter.ant_type,
          building_height |-> simulation_parameters.building_height,
          street_width |-> simulation_parameters.street_width,
          environment |-> environment, type_of_sight |-> type_of_sight,
          ue_height |-> receiver.ue_height,
          above_roof |-> simulation_parameters.above_roof,
          indoor |-> receiver.indoor,
          seed_value |-> simulation_parameters.seed_value1,
          iterations |-> simulation_parameters.iterations ]
      got == path_loss_calculator(args)
  IN  [ kind |-> got.kind, exc |-> got.exc,
        path_loss |-> got.path_loss, model |-> got.model,
        strt_distance |-> strt_distance, type_of_sight |-> type_of_sight,
        calls |-> << args >> ]

\* SimulationManager.estimate_path_loss
estimate_path_loss(receiver, frequency, environment, simulation_parameters) ==
  LET temp_line_length ==
        LineStringLength(receiver.coordinates, transmitter.coordinates)
      strt_distance ==
        IF temp_line_length < 20 THEN 20 ELSE temp_line_length
      ant_height == transmitter.ant_height
      ant_type == transmitter.ant_type
      type_of_sight ==
        IF strt_distance < simulation_parameters.los_breakpoint_m
        THEN "los" ELSE "nlos"
      args ==
        [ frequency |-> frequency, distance |-> strt_distance,
          ant_height |-> ant_height, ant_type |-> ant_type,
          building_height |-> simulation_parameters.building_height,
          street_width |-> simulation_parameters.street_width,
          environment |-> environment, type_of_sight |-> type_of_sight,
          ue_height |-> receiver.ue_height,
          above_roof |-> simulation_parameters.above_roof,
          indoor |-> receiver.indoor,
          seed_value |-> simulation_parameters.seed_value1,
          iterations |-> simulation_parameters.iterations ]
      got == path_loss_calculator(args)
  IN  [ kind |-> got.kind, exc |-> got.exc,
        path_loss |-> got.path_loss, model |-> got.model,
        strt_distance |-> strt_distance, type_of_sight |-> type_of_sight,
        calls |-> << args >> ]

----------------------------------------------------------------------------
(* Received power                                                          *)

\* Variant of estimate_received_power that leaves out the receiver's
\* misc_losses: the formula C8 is tested against
estimate_received_power_no_misc(tx, receiver, path_loss) ==
  LET eirp == transmitter.power + transmitter.gain - transmitter.losses
  IN  eirp - path_loss + receiver.gain - receiver.losses

\* SimulationManager.estimate_received_power: the EIRP is taken from
\* self.transmitter, whatever transmitter is passed
estimate_received_power(tx, receiver, path_loss) ==
  LET eirp == transmitter.power + transmitter.gain - transmitter.losses
  IN  eirp - path_loss - receiver.misc_losses + receiver.gain - receiver.losses

----------------------------------------------------------------------------
(* Interference aggregation                                                *)

\* round(num / den) to the nearest integer, den > 0
RoundDiv(num, den) == (2 * num + den) \div (2 * den)

\* State of estimate_interference's loop after the first n interfering
\* transmitters; model is unbound before the first iteration
RECURSIVE InterferenceLoop(_, _, _, _, _)
InterferenceLoop(receiver, frequency, environment, simulation_parameters, n) ==
  IF n = 0
  THEN [ kind |-> "value", exc |-> "",
         interference |-> << >>, model |-> "unbound", ave_distance |-> 0,
         ave_pl |-> 0, power_calls |-> << >>, calls |-> << >> ]
  ELSE
    LET before == InterferenceLoop(receiver, frequency, environment,
                                   simulation_parameters, n - 1)
        interfering_transmitter == interfering_transmitters[n]
        \* "interference_strt_distance == 20" compares and assigns nothing
        interference_strt_distance ==
          LineStringLength(receiver.coordinates,
                           interfering_transmitter.coordinates)
        ant_height == interfering_transmitter.ant_height
        ant_type == interfering_transmitter.ant_type
        type_of_sight ==
          IF interference_strt_distance < simulation_parameters.los_breakpoint_m
          THEN "los" ELSE "nlos"
        args ==
          [ frequency |-> frequency, distance |-> interference_strt_distance,
            ant_height |-> ant_height, ant_type |-> ant_type,
            building_height |-> simulation_parameters.building_height,
            street_width |-> simulation_parameters.street_width,
            environment |-> environment, type_of_sight |-> type_of_sight,
            ue_height |-> receiver.ue_height,
            above_roof |-> simulation_parameters.above_roof,
            indoor |-> receiver.indoor,
            seed_value |-> simulation_parameters.seed_value2,
            iterations |-> simulation_parameters.iterations ]
        got == path_loss_calculator(args)
        received_interference ==
          estimate_received_power(interfering_transmitter, receiver,
                                  got.path_loss)
    IN  IF before.kind = "raise" THEN before
        ELSE IF got.kind = "raise"
        THEN [before EXCEPT !.kind = "raise", !.exc = got.exc,
                            !.calls = Append(before.calls, args)]
        ELSE
        [ kind |-> "value", exc |-> "",
          interference |-> Append(before.interference, received_interference),
          model |-> got.model,
          ave_distance |-> before.ave_distance + interference_strt_distance,
          ave_pl |-> before.ave_pl + got.path_loss,
          power_calls |->
            Append(before.power_calls,
                   [ transmitter |-> interfering_transmitter,
                     receiver |-> receiver,
                     path_loss |-> got.path_loss,
                     received_power |-> received_interference ]),
          calls |-> Append(before.calls, args) ]

\* Variant of estimate_interference that reports the model of the first
\* interfering transmitter: the choice C19 is tested against
estimate_interference_first_model(receiver, frequency, environment, simulation_parameters) ==
  LET loop == InterferenceLoop(receiver, frequency, environment,
                               simulation_parameters,
                               Len(interfering_transmitters))
      first == InterferenceLoop(receiver, frequency, environment,
                                simulation_parameters, 1)
      count == Len(interfering_transmitters)
  IN  IF loop.kind = "raise"
      THEN [ kind |-> "raise", exc |-> loop.exc,
             power_calls |-> loop.power_calls, calls |-> loop.calls ]
      ELSE IF count = 0
      THEN [ kind |-> "raise", exc |-> "ZeroDivisionError",
             power_calls |-> loop.power_calls, calls |-> loop.calls ]
      ELSE [ kind |-> "value", exc |-> "",
             interference |-> loop.interference, model |-> first.model,
             ave_distance |-> RoundDiv(loop.ave_distance * 100, count),
             ave_pl |-> RoundDiv(loop.ave_pl, count),
             power_calls |-> loop.power_calls, calls |-> loop.calls ]

\* Variant of estimate_interference whose averages divide by the number of
\* interfering transmitters estimate_sinr keeps, three at most: the divisor
\* C24 is tested against
estimate_interference_kept(receiver, frequency, environment, simulation_parameters) ==
  LET loop == InterferenceLoop(receiver, frequency, environment,
                               simulation_parameters,
                               Len(interfering_transmitters))
      count == IF Len(interfering_transmitters) > 3
               THEN 3 ELSE Len(interfering_transmitters)
  IN  IF loop.kind = "raise"
      THEN [ kind |-> "raise", exc |-> loop.exc,
             power_calls |-> loop.power_calls, calls |-> loop.calls ]
      ELSE IF count = 0
      THEN [ kind |-> "raise", exc |-> "ZeroDivisionError",
             power_calls |-> loop.power_calls, calls |-> loop.calls ]
      ELSE [ kind |-> "value", exc |-> "",
             interference |-> loop.interference, model |-> loop.model,
             ave_distance |-> RoundDiv(loop.ave_distance * 100, count),
             ave_pl |-> RoundDiv(loop.ave_pl, count),
             power_calls |-> loop.power_calls, calls |-> loop.calls ]

\* SimulationManager.estimate_interference: the averages divide by the number
\* of interfering transmitters (ave_distance in hundredths of a metre, ave_pl
\* in hundredths of a dB)
estimate_interference(receiver, frequency, environment, simulation_parameters) ==
  LET loop == InterferenceLoop(receiver, frequency, environment,
                               simulation_parameters,
                               Len(interfering_transmitters))
      count == Len(interfering_transmitters)
  IN  IF loop.kind = "raise"
      THEN [ kind |-> "raise", exc |-> loop.exc,
             power_calls |-> loop.power_calls, calls |-> loop.calls ]
      ELSE IF count = 0
      THEN [ kind |-> "raise", exc |-> "ZeroDivisionError",
             power_calls |-> loop.power_calls, calls |-> loop.calls ]
      ELSE [ kind |-> "value", exc |-> "",
             interference |-> loop.interference, model |-> loop.model,
             ave_distance |-> RoundDiv(loop.ave_distance * 100, count),
             ave_pl |-> RoundDiv(loop.ave_pl, count),
             power_calls |-> loop.power_calls, calls |-> loop.calls ]

----------------------------------------------------------------------------
(* Noise floor                                                             *)

\* the local variables of estimate_noise: k = 1.38e-23 as the decimal
\* m * 10^e, t = 290 and the bandwidth in hertz
estimate_noise_locals(bandwidth) ==
  [ k |-> [m |-> 138, e |-> -25], t |-> 290, BW |-> bandwidth * 1000000 ]

\* SimulationManager.estimate_noise, in hundredths of a dB; each logarithm is
\* taken to two decimals
estimate_noise(bandwidth) ==
  LET k  == estimate_noise_locals(bandwidth).k
      t  == estimate_noise_locals(bandwidth).t
      BW == estimate_noise_locals(bandwidth).BW
  IN  10 * RoundLog10(FNorm(k.m * t * 1000, k.e), FOne) + 150
        + 10 * RoundLog10(FNorm(BW, 0), FOne)

----------------------------------------------------------------------------
(* SINR                                                                    *)

\* Variant of SortDescending that leaves the list in the order given: the
\* ordering C9 is tested against
Unsorted(list) == list

\* list.sort(reverse=True) on floats: the element at position j moves to
\* the position given by the number of elements that precede it
SortDescending(list) ==
  LET Position(j) ==
        1 + Cardinality({ k \in 1..Len(list) :
                            \/ FLess(list[j], list[k])
                            \/ (list[k] = list[j] /\ k < j) })
  IN  [i \in 1..Len(list) |->
         list[CHOOSE j \in 1..Len(list) : Position(j) = i]]

\* list[:n]
Take(list, n) == SubSeq(list, 1, IF Len(list) < n THEN Len(list) ELSE n)

\* sum(list) of floats, added left to right from 0
RECURSIVE FSum(_)
FSum(list) ==
  IF list = << >> THEN FZero
  ELSE FAdd(FSum(SubSeq(list, 1, Len(list) - 1)), list[Len(list)])

\* Variant of estimate_sinr whose interference plus noise leaves the noise
\* out: the sum C25 is tested against
estimate_sinr_without_noise(received_power, interference, noise, simulation_parameters) ==
  LET raw_received_power == Pow10(received_power)
      interference_list ==
        Take(SortDescending([i \in 1..Len(interference) |->
                               Pow10(interference[i])]), 3)
      network_load == simulation_parameters.network_load
      i_summed == FSum(interference_list)
      raw_sum_of_interference == FTimesPercent(i_summed, network_load)
      raw_noise == Pow10(noise)
      i_plus_n == raw_sum_of_interference
      sinr == RoundLog10(raw_received_power, i_plus_n)
  IN  [ received_power |-> received_power,
        raw_sum_of_interference |-> raw_sum_of_interference,
        noise |-> noise,
        i_plus_n |-> i_plus_n,
        sinr |-> sinr,
        raw_received_power |-> raw_received_power,
        interference_list |-> interference_list,
        raw_noise |-> raw_noise ]

\* SimulationManager.estimate_sinr: the five values returned, and the linear
\* magnitudes raw_received_power and raw_noise it computes on the way
estimate_sinr(received_power, interference, noise, simulation_parameters) ==
  LET raw_received_power == Pow10(received_power)
      interference_list ==
        Take(SortDescending([i \in 1..Len(interference) |->
                               Pow10(interference[i])]), 3)
      network_load == simulation_parameters.network_load
      i_summed == FSum(interference_list)
      raw_sum_of_interference == FTimesPercent(i_summed, network_load)
      raw_noise == Pow10(noise)
      i_plus_n == FAdd(raw_sum_of_interference, raw_noise)
      sinr == RoundLog10(raw_received_power, i_plus_n)
  IN  [ received_power |-> received_power,
        raw_sum_of_interference |-> raw_sum_of_interference,
        noise |-> noise,
        i_plus_n |-> i_plus_n,
        sinr |-> sinr,
        raw_received_power |-> raw_received_power,
        interference_list |-> interference_list,
        raw_noise |-> raw_noise ]

----------------------------------------------------------------------------
(* Capacity                                                                *)

\* (a * b) / c without forming a * b when c divides a
MulDiv(a, b, c) == (a \div c) * b + ((a % c) * b) \div c

RECURSIVE Gcd(_, _)
Gcd(a, b) == IF b = 0 THEN a ELSE Gcd(b, a % b)

\* Variant of estimate_average_capacity that divides by the site area in m2
\* for the site area in km2: the formula C12 is tested against
estimate_average_capacity_per_m2(bandwidth, spectral_efficiency) ==
  IF spectral_efficiency.kind = "none" THEN Raise("TypeError")
  ELSE
    LET bandwidth_in_hertz == bandwidth * 1000000
        capacity_mbps ==
          MulDiv(bandwidth_in_hertz, spectral_efficiency.value, 1000000)
    IN  IF site_area.area = 0 THEN Raise("ZeroDivisionError")
        ELSE [ kind |-> "value", exc |-> "", value |-> 0,
               capacity_mbps |-> capacity_mbps,
               capacity_mbps_km2 |-> capacity_mbps \div site_area.area ]

\* Variant of estimate_average_capacity that takes the bandwidth in MHz for
\* the bandwidth in hertz: the formula C11 is tested against
estimate_average_capacity_mhz(bandwidth, spectral_efficiency) ==
  IF spectral_efficiency.kind = "none" THEN Raise("TypeError")
  ELSE
    LET bandwidth_in_hertz == bandwidth
        capacity_mbps ==
          MulDiv(bandwidth_in_hertz, spectral_efficiency.value, 1000000)
        g == Gcd(site_area.area, 1000000)
    IN  IF site_area.area = 0 THEN Raise("ZeroDivisionError")
        ELSE [ kind |-> "value", exc |-> "", value |-> 0,
               capacity_mbps |-> capacity_mbps,
               capacity_mbps_km2 |->
                 MulDiv(capacity_mbps, 1000000 \div g, site_area.area \div g) ]

\* SimulationManager.estimate_average_capacity: capacities in 1e-4 Mbps;
\* None as spectral efficiency is a TypeError in the first product
estimate_average_capacity(bandwidth, spectral_efficiency) ==
  IF spectral_efficiency.kind = "none" THEN Raise("TypeError")
  ELSE
    LET bandwidth_in_hertz == bandwidth * 1000000
        capacity_mbps ==
          MulDiv(bandwidth_in_hertz, spectral_efficiency.value, 1000000)
        g == Gcd(site_area.area, 1000000)
    IN  IF site_area.area = 0 THEN Raise("ZeroDivisionError")
        ELSE [ kind |-> "value", exc |-> "", value |-> 0,
               capacity_mbps |-> capacity_mbps,
               capacity_mbps_km2 |->
                 MulDiv(capacity_mbps, 1000000 \div g, site_area.area \div g) ]

\* np.log10(x) of a float in hundredths; log10(0) is -inf
NpLog10(x) ==
  IF x.m = 0 THEN [neg_inf |-> TRUE, value |-> 0]
  ELSE [neg_inf |-> FALSE, value |-> RoundLog10(x, FOne)]

----------------------------------------------------------------------------
(* Inputs of the construction                                              *)

MaxReceivers == 2

MaxInterferers == 3

SeqsUpTo(S, n) == UNION { [1..m -> S] : m \in 0..n }

\* Points of the line through (0, 0) and (3, 4): any two of them are a whole
\* number of metres apart
Point(k) == << 3 * k, 4 * k >>

Feature(id, coordinates) ==
  [ properties |-> [site_id |-> id], geometry |-> [coordinates |-> coordinates] ]

\* the primary transmitter of produce_sites_and_site_areas
TransmitterData == Feature("HCMUT Tower", Point(0))

\* interfering sites 20 m, 600 m and 180 m from the transmitter
InterfererPool ==
  { Feature("site_1", Point(4)),
    Feature("site_2", Point(120)),
    Feature("site_3", Point(36)) }

\* four interfering sites, the fourth 1005 m from the transmitter: more than
\* the three estimate_sinr keeps
FourSites ==
  << Feature("site_1", Point(4)), Feature("site_2", Point(120)),
     Feature("site_3", Point(36)), Feature("site_4", Point(201)) >>

\* three interfering-site records of which the third repeats the identifier
\* of the first, at another place
RepeatedSites ==
  << Feature("site_1", Point(4)), Feature("site_2", Point(120)),
     Feature("site_1", Point(60)) >>

\* the lists of interfering sites a manager is built from
InterferingLists ==
  SeqsUpTo(InterfererPool, MaxInterferers) \cup {FourSites, RepeatedSites}

ReceiverData(id, coordinates, gain, losses, misc_losses, indoor) ==
  [ properties |->
      [ ue_id |-> id, misc_losses |-> misc_losses, gain |-> gain,
        losses |-> losses, ue_height |-> PARAMETERS.rx_height,
        indoor |-> indoor ],
    geometry |-> [coordinates |-> coordinates] ]

\* receivers as generate_receivers builds them, at 0 m, 15 m, 100 m and
\* 500 m from the transmitter; the last one repeats the identifier id_0
ReceiverPool ==
  { ReceiverData("id_0", Point(0), PARAMETERS.rx_gain, PARAMETERS.rx_losses,
                 PARAMETERS.rx_misc_losses, FALSE),
    ReceiverData("id_1", Point(3), PARAMETERS.rx_gain, PARAMETERS.rx_losses,
                 PARAMETERS.rx_misc_losses, TRUE),
    ReceiverData("id_2", Point(20), 0, 200, 300, FALSE),
    ReceiverData("id_0", Point(100), PARAMETERS.rx_gain, PARAMETERS.rx_losses,
                 PARAMETERS.rx_misc_losses, FALSE) }

\* a site area of 1 km2
SiteAreaData ==
  [ properties |-> [site_id |-> "HCMUT Tower"],
    geometry |->
      [ coordinates |->
          << << 0, 0 >>, << 1000, 0 >>, << 1000, 1000 >>, << 0, 1000 >> >> ] ]

\* a polygon of the given corners as a site-area feature
SiteAreaFeature(ring) ==
  [ properties |-> [site_id |-> "HCMUT Tower"],
    geometry |-> [coordinates |-> ring] ]

\* site areas of 1 km2, 0.25 km2 and 2 km2, and a degenerate polygon of
\* area 0
SiteAreaPool ==
  { SiteAreaData,
    SiteAreaFeature(<< << 0, 0 >>, << 500, 0 >>, << 500, 500 >>, << 0, 500 >> >>),
    SiteAreaFeature(<< << 0, 0 >>, << 2000, 0 >>, << 2000, 1000 >>, << 0, 1000 >> >>),
    SiteAreaFeature(<< << 0, 0 >>, << 500, 0 >>, << 1000, 0 >>, << 0, 0 >> >>) }

\* the site areas of the managers the calls are made on: 0.25 km2 and the
\* degenerate polygon
MainSiteAreas == { data \in SiteAreaPool : _calculate_area(data) < 1000000 }

----------------------------------------------------------------------------
(* The manager and its calls                                               *)

NoCall == [fn |-> "none"]

\* no file of that name in the directory
NoFile == [exists |-> FALSE, rows |-> << >>]

NoRet == [kind |-> "pending", value |-> 0, exc |-> "", results |-> << >>]

\* the caller keeps no outcome for comparison
NotObserving ==
  [on |-> FALSE, seen |-> FALSE, between |-> FALSE, call |-> NoCall, ret |-> NoRet]

\* the caller will keep the outcome of the first call that completes
Observing == [NotObserving EXCEPT !.on = TRUE]

\* the local variables of a loop iteration before any is assigned
NoLocals ==
  [ path_loss |-> 0, r_model |-> "", r_distance |-> 0, type_of_sight |-> "",
    received_power |-> 0, interference |-> << >>, i_model |-> "",
    ave_distance |-> 0, ave_inf_pl |-> 0, noise |-> 0,
    f_received_power |-> 0, f_interference |-> FZero, f_noise |-> 0,
    i_plus_n |-> FZero, sinr |-> 0, spectral_efficiency |-> ReturnNone,
    capacity_mbps |-> 0, capacity_mbps_km2 |-> 0 ]

\* SimulationManager.__init__
Constructed(transmitter_list, interfering_list, ant_type, receiver_list, site_area_list, simulation_parameters) ==
  /\ transmitter = Transmitter(transmitter_list[1], ant_type,
                               simulation_parameters)
  /\ interfering_transmitters =
       BuildInterferingTransmitters(interfering_list, ant_type,
                                    simulation_parameters)
  /\ receivers = BuildReceivers(receiver_list, simulation_parameters)
  /\ site_area = SiteArea(site_area_list[1])

\* no call in progress
Idle ==
  /\ call = NoCall
  /\ pc = "idle"
  /\ idx = 0
  /\ loc = NoLocals
  /\ results = << >>
  /\ ret = NoRet
  /\ pl_calls = << >>
  /\ power_calls = << >>
  /\ observed = NotObserving
  /\ lut_file = NoFile
  /\ lut_calls = << >>

Init ==
  /\ \E ant_type \in ANT_TYPE,
        interfering_list \in InterferingLists,
        receiver_list \in SeqsUpTo(ReceiverPool, MaxReceivers),
        site_area_data \in MainSiteAreas :
       Constructed(<< TransmitterData >>, interfering_list, ant_type,
                   receiver_list, << site_area_data >>, PARAMETERS)
  /\ Idle

\* the spectrum bands of the sweep, and a band of a generation that no table
\* has
SpectrumPool ==
  SPECTRUM_PORTFOLIO \cup
    { [frequency |-> 210, bandwidth |-> 5, generation |-> "3G",
       transmission_type |-> "1x1"] }

MainLuts == {"reference", "raised_5G"}

\* the environment of a call: urban, and for the 5G band on the reference
\* table also one in which the propagation model covers line of sight only
MainEnvironments(sp, lut) ==
  IF sp.generation = "5G" /\ lut = "reference"
  THEN {"urban", "los_only"}
  ELSE {"urban"}

\* network_load of the parameters passed to a call: the configured 50 %, and
\* for the 4G band on the reference table also 0 %
MainLoads(sp, lut) ==
  IF sp.generation = "4G" /\ lut = "reference"
  THEN {PARAMETERS.network_load, 0}
  ELSE {PARAMETERS.network_load}

\* Variant of receiver that stays on the first entry of the map: the
\* iteration C7 is tested against
first_receiver == receivers[1]

\* the receiver of the current loop iteration
receiver == receivers[idx]

\* the call completes with the outcome: the caller keeps the outcome of the
\* first call, and notes a later call with other arguments
Observe(outcome) ==
  observed' =
    IF ~ observed.on THEN observed
    ELSE IF ~ observed.seen
      THEN [observed EXCEPT !.seen = TRUE, !.call = call, !.ret = outcome]
    ELSE IF call # observed.call THEN [observed EXCEPT !.between = TRUE]
    ELSE observed

\* an exception leaves estimate_link_budget: the results list is lost
RaiseFrom(e) ==
  /\ pc' = "raised"
  /\ ret' = [NoRet EXCEPT !.kind = "raise", !.exc = e]
  /\ Observe([NoRet EXCEPT !.kind = "raise", !.exc = e])
  /\ results' = << >>
  /\ loc' = NoLocals
  /\ idx' = 0

\* MANAGER.estimate_link_budget(...) as run_simulator calls it: results = []
\* and the loop is entered
CallEstimateLinkBudget ==
  /\ pc \in {"idle", "returned", "raised"}
  /\ \E sp \in SpectrumPool, lut \in MainLuts :
     \E network_load \in MainLoads(sp, lut),
        environment \in MainEnvironments(sp, lut) :
       call' = [ fn |-> "estimate_link_budget",
                 frequency |-> sp.frequency, bandwidth |-> sp.bandwidth,
                 generation |-> sp.generation,
                 ant_type |-> transmitter.ant_type,
                 tranmission_type |-> sp.transmission_type,
                 environment |-> environment, lut |-> lut,
                 simulation_parameters |->
                   [PARAMETERS EXCEPT !.network_load = network_load] ]
  /\ results' = << >>
  /\ ret' = NoRet
  /\ pl_calls' = << >>
  /\ power_calls' = << >>
  /\ loc' = NoLocals
  /\ idx' = 1
  /\ pc' = "for"
  /\ UNCHANGED << manager, lut_file, lut_calls, observed >>

\* for receiver in self.receivers.values(): the next receiver, or
\* "return results" after the last one
ForReceiver ==
  /\ pc = "for"
  /\ IF idx <= Len(receivers)
     THEN /\ pc' = "estimate_path_loss"
          /\ UNCHANGED << idx, ret, results, observed >>
     ELSE /\ pc' = "returned"
          /\ ret' = [NoRet EXCEPT !.kind = "value", !.results = results]
          /\ Observe([NoRet EXCEPT !.kind = "value", !.results = results])
          /\ results' = << >>
          /\ idx' = 0
  /\ UNCHANGED << manager, lut_file, lut_calls, call, loc, pl_calls, power_calls >>

\* Variant of EstimatePathLoss that catches the error of the propagation
\* model and goes on with what it has: the step C18 is tested against
EstimatePathLossCatching ==
  /\ pc = "estimate_path_loss"
  /\ LET got == estimate_path_loss(receiver, call.frequency,
                                   call.environment,
                                   call.simulation_parameters)
     IN  /\ pl_calls' = pl_calls \o got.calls
         /\ loc' = [loc EXCEPT !.path_loss = got.path_loss,
                               !.r_model = got.model,
                               !.r_distance = got.strt_distance,
                               !.type_of_sight = got.type_of_sight]
  /\ pc' = "estimate_received_power"
  /\ UNCHANGED << manager, lut_file, lut_calls, observed, call, idx, results, ret, power_calls >>

\* Variant of EstimatePathLoss in which the propagation model is invoked a
\* second time for the serving transmitter: the step C21 is tested against
EstimatePathLossTwice ==
  /\ pc = "estimate_path_loss"
  /\ LET got == estimate_path_loss(receiver, call.frequency,
                                   call.environment,
                                   call.simulation_parameters)
     IN  /\ pl_calls' = pl_calls \o got.calls \o got.calls
         /\ IF got.kind = "raise"
            THEN RaiseFrom(got.exc)
            ELSE /\ loc' = [loc EXCEPT !.path_loss = got.path_loss,
                                       !.r_model = got.model,
                                       !.r_distance = got.strt_distance,
                                       !.type_of_sight = got.type_of_sight]
                 /\ pc' = "estimate_received_power"
                 /\ UNCHANGED << idx, results, ret, observed >>
  /\ UNCHANGED << manager, lut_file, lut_calls, call, power_calls >>

\* path_loss, r_model, r_distance, type_of_sight = self.estimate_path_loss(...)
EstimatePathLoss ==
  /\ pc = "estimate_path_loss"
  /\ LET got == estimate_path_loss(receiver, call.frequency,
                                   call.environment,
                                   call.simulation_parameters)
     IN  /\ pl_calls' = pl_calls \o got.calls
         /\ IF got.kind = "raise"
            THEN RaiseFrom(got.exc)
            ELSE /\ loc' = [loc EXCEPT !.path_loss = got.path_loss,
                                       !.r_model = got.model,
                                       !.r_distance = got.strt_distance,
                                       !.type_of_sight = got.type_of_sight]
                 /\ pc' = "estimate_received_power"
                 /\ UNCHANGED << idx, results, ret, observed >>
  /\ UNCHANGED << manager, lut_file, lut_calls, call, power_calls >>

\* received_power = self.estimate_received_power(self.transmitter, ...)
EstimateReceivedPower ==
  /\ pc = "estimate_received_power"
  /\ LET received_power ==
           estimate_received_power(transmitter, receiver, loc.path_loss)
     IN  /\ loc' = [loc EXCEPT !.received_power = received_power]
         /\ power_calls' =
              Append(power_calls,
                     [ transmitter |-> transmitter, receiver |-> receiver,
                       path_loss |-> loc.path_loss,
                       received_power |-> received_power ])
  /\ pc' = "estimate_interference"
  /\ UNCHANGED << manager, lut_file, lut_calls, observed, call, idx, results, ret, pl_calls >>

\* Variant of EstimateInterference in which the interference list is shared
\* by the receivers of the call and never emptied: the step C16 is tested
\* against
EstimateInterferenceShared ==
  /\ pc = "estimate_interference"
  /\ LET got == estimate_interference(receiver, call.frequency,
                                      call.environment,
                                      call.simulation_parameters)
         shared == SelectSeq(power_calls \o got.power_calls,
                             LAMBDA c : c.transmitter.id # transmitter.id)
     IN  /\ pl_calls' = pl_calls \o got.calls
         /\ power_calls' = power_calls \o got.power_calls
         /\ IF got.kind = "raise"
            THEN RaiseFrom(got.exc)
            ELSE /\ loc' = [loc EXCEPT
                              !.interference =
                                [i \in DOMAIN shared |-> shared[i].received_power],
                              !.i_model = got.model,
                              !.ave_distance = got.ave_distance,
                              !.ave_inf_pl = got.ave_pl]
                 /\ pc' = "estimate_noise"
                 /\ UNCHANGED << idx, results, ret, observed >>
  /\ UNCHANGED << manager, lut_file, lut_calls, call >>

\* interference, i_model, ave_distance, ave_inf_pl =
\*   self.estimate_interference(...)
EstimateInterference ==
  /\ pc = "estimate_interference"
  /\ LET got == estimate_interference(receiver, call.frequency,
                                      call.environment,
                                      call.simulation_parameters)
     IN  /\ pl_calls' = pl_calls \o got.calls
         /\ power_calls' = power_calls \o got.power_calls
         /\ IF got.kind = "raise"
            THEN RaiseFrom(got.exc)
            ELSE /\ loc' = [loc EXCEPT !.interference = got.interference,
                                       !.i_model = got.model,
                                       !.ave_distance = got.ave_distance,
                                       !.ave_inf_pl = got.ave_pl]
                 /\ pc' = "estimate_noise"
                 /\ UNCHANGED << idx, results, ret, observed >>
  /\ UNCHANGED << manager, lut_file, lut_calls, call >>

\* Variant of EstimateNoise that also writes the receiver's losses into the
\* receiver map: the step C14 is tested against
EstimateNoiseWritingReceiver ==
  /\ pc = "estimate_noise"
  /\ loc' = [loc EXCEPT !.noise = estimate_noise(call.bandwidth)]
  /\ pc' = "estimate_sinr"
  /\ receivers' = [receivers EXCEPT ![idx].losses = 0]
  /\ UNCHANGED << lut_file, lut_calls >>
  /\ UNCHANGED << transmitter, interfering_transmitters, site_area, call, idx,
                  results, ret, pl_calls, power_calls, observed >>

\* noise = self.estimate_noise(bandwidth)
EstimateNoise ==
  /\ pc = "estimate_noise"
  /\ loc' = [loc EXCEPT !.noise = estimate_noise(call.bandwidth)]
  /\ pc' = "estimate_sinr"
  /\ UNCHANGED << manager, lut_file, lut_calls, observed, call, idx, results, ret, pl_calls, power_calls >>

\* Variant of EstimateSinr that unpacks the received power and the noise the
\* wrong way round: the step C20 is tested against
EstimateSinrSwapped ==
  /\ pc = "estimate_sinr"
  /\ LET got == estimate_sinr(loc.received_power, loc.interference,
                              loc.noise, call.simulation_parameters)
     IN  loc' = [loc EXCEPT !.f_received_power = got.noise,
                            !.f_interference = got.raw_sum_of_interference,
                            !.f_noise = got.received_power,
                            !.i_plus_n = got.i_plus_n,
                            !.sinr = got.sinr]
  /\ pc' = "estimate_spectral_efficiency"
  /\ UNCHANGED << manager, lut_file, lut_calls, observed, call, idx, results, ret, pl_calls, power_calls >>

\* f_received_power, f_interference, f_noise, i_plus_n, sinr =
\*   self.estimate_sinr(...)
EstimateSinr ==
  /\ pc = "estimate_sinr"
  /\ LET got == estimate_sinr(loc.received_power, loc.interference,
                              loc.noise, call.simulation_parameters)
     IN  loc' = [loc EXCEPT !.f_received_power = got.received_power,
                            !.f_interference = got.raw_sum_of_interference,
                            !.f_noise = got.noise,
                            !.i_plus_n = got.i_plus_n,
                            !.sinr = got.sinr]
  /\ pc' = "estimate_spectral_efficiency"
  /\ UNCHANGED << manager, lut_file, lut_calls, observed, call, idx, results, ret, pl_calls, power_calls >>

\* spectral_efficiency = self.estimate_spectral_efficiency(...)
EstimateSpectralEfficiency ==
  /\ pc = "estimate_spectral_efficiency"
  /\ LET got == estimate_spectral_efficiency(loc.sinr, call.generation,
                                             Lut(call.lut))
     IN  IF got.kind = "raise"
         THEN RaiseFrom(got.exc)
         ELSE /\ loc' = [loc EXCEPT !.spectral_efficiency = got]
              /\ pc' = "estimate_average_capacity"
              /\ UNCHANGED << idx, results, ret, observed >>
  /\ UNCHANGED << manager, lut_file, lut_calls, call, pl_calls, power_calls >>

\* capacity_mbps, capacity_mbps_km2 = self.estimate_average_capacity(...)
EstimateAverageCapacity ==
  /\ pc = "estimate_average_capacity"
  /\ LET got == estimate_average_capacity(call.bandwidth,
                                          loc.spectral_efficiency)
     IN  IF got.kind = "raise"
         THEN RaiseFrom(got.exc)
         ELSE /\ loc' = [loc EXCEPT !.capacity_mbps = got.capacity_mbps,
                           !.capacity_mbps_km2 = got.capacity_mbps_km2]
              /\ pc' = "append"
              /\ UNCHANGED << idx, results, ret, observed >>
  /\ UNCHANGED << manager, lut_file, lut_calls, call, pl_calls, power_calls >>

\* results.append({...}), and on to the next receiver
AppendResult ==
  /\ pc = "append"
  /\ results' =
       Append(results,
         [ id |-> receiver.id,
           path_loss |-> loc.path_loss,
           r_model |-> loc.r_model,
           type_of_sight |-> loc.type_of_sight,
           ave_inf_pl |-> loc.ave_inf_pl,
           received_power |-> loc.f_received_power,
           distance |-> loc.r_distance,
           interference |-> NpLog10(loc.f_interference),
           i_model |-> loc.i_model,
           network_load |-> call.simulation_parameters.network_load,
           ave_distance |-> loc.ave_distance,
           noise |-> loc.f_noise,
           i_plus_n |-> NpLog10(loc.i_plus_n),
           tranmission_type |-> call.tranmission_type,
           sinr |-> loc.sinr,
           spectral_efficiency |-> loc.spectral_efficiency.value,
           capacity_mbps |-> loc.capacity_mbps,
           capacity_mbps_km2 |-> loc.capacity_mbps_km2,
           receiver_x |-> receiver.coordinates[1],
           receiver_y |-> receiver.coordinates[2] ])
  /\ idx' = idx + 1
  /\ loc' = NoLocals
  /\ pc' = "for"
  /\ UNCHANGED << manager, lut_file, lut_calls, observed, call, ret, pl_calls, power_calls >>

Next ==
  \/ CallEstimateLinkBudget
  \/ ForReceiver
  \/ EstimatePathLoss
  \/ EstimateReceivedPower
  \/ EstimateInterference
  \/ EstimateNoise
  \/ EstimateSinr
  \/ EstimateSpectralEfficiency
  \/ EstimateAverageCapacity
  \/ AppendResult

Spec == Init /\ [][Next]_vars

----------------------------------------------------------------------------
(* Repeated calls: the caller keeps the outcome of its first call and makes *)
(* further calls on the same manager                                        *)

\* no interfering transmitter, one, and three
ObservedInterferers ==
  { << >>,
    << Feature("site_3", Point(36)) >>,
    << Feature("site_1", Point(4)), Feature("site_2", Point(120)),
       Feature("site_3", Point(36)) >> }

InitObserved ==
  /\ \E ant_type \in ANT_TYPE,
        interfering_list \in ObservedInterferers,
        receiver_list \in SeqsUpTo(ReceiverPool, MaxReceivers) :
       Constructed(<< TransmitterData >>, interfering_list, ant_type,
                   receiver_list, << SiteAreaData >>, PARAMETERS)
  /\ call = NoCall
  /\ pc = "idle"
  /\ idx = 0
  /\ loc = NoLocals
  /\ results = << >>
  /\ ret = NoRet
  /\ pl_calls = << >>
  /\ power_calls = << >>
  /\ observed = Observing
  /\ lut_file = NoFile
  /\ lut_calls = << >>

SpecObserved == InitObserved /\ [][Next]_vars

----------------------------------------------------------------------------
(* The lookup on its own: estimate_spectral_efficiency applied to every     *)
(* table, generation and SINR of the pools                                  *)

\* a manager with no receiver and no interfering transmitter
IdleManager ==
  Constructed(<< TransmitterData >>, << >>, "micro", << >>,
              << SiteAreaData >>, PARAMETERS)

InitSE ==
  /\ IdleManager
  /\ \E sinr \in SinrPool, generation \in Generations, lut \in LutNames :
       call = [ fn |-> "estimate_spectral_efficiency", sinr |-> sinr,
                generation |-> generation, lut |-> lut ]
  /\ pc = "idle"
  /\ idx = 0
  /\ loc = NoLocals
  /\ results = << >>
  /\ ret = NoRet
  /\ pl_calls = << >>
  /\ power_calls = << >>
  /\ observed = NotObserving
  /\ lut_file = NoFile
  /\ lut_calls = << >>

CallSpectralEfficiency ==
  /\ call.fn = "estimate_spectral_efficiency"
  /\ pc = "idle"
  /\ ret' = estimate_spectral_efficiency(call.sinr, call.generation,
                                         Lut(call.lut))
  /\ pc' = "returned"
  /\ UNCHANGED << manager, lut_file, lut_calls, observed, call, idx, loc, results, pl_calls, power_calls >>

NextSE == CallSpectralEfficiency

SpecSE == InitSE /\ [][NextSE]_vars

----------------------------------------------------------------------------
(* estimate_sinr on its own: applied to every received power, interference  *)
(* list, noise and network load of the pools                                *)

MaxInterference == 4

\* received powers in hundredths of a dBm: 1, 2, 10, 20 and -70 dBm
ReceivedPowerPool == {100, 200, 1000, 2000, -7000}

\* per-interferer received powers: -72, -74.5 and -80 dBm
InterferencePool == {-7200, -7450, -8000}

\* noise floors: that of a 20 MHz carrier, and -71 dBm
NoisePool == {-9950, -7100}

NetworkLoadPool == {50, 100}

InitSinr ==
  /\ IdleManager
  /\ \E received_power \in ReceivedPowerPool,
        interference \in SeqsUpTo(InterferencePool, MaxInterference),
        noise \in NoisePool, network_load \in NetworkLoadPool :
       call = [ fn |-> "estimate_sinr", received_power |-> received_power,
                interference |-> interference, noise |-> noise,
                simulation_parameters |->
                  [PARAMETERS EXCEPT !.network_load = network_load] ]
  /\ pc = "idle"
  /\ idx = 0
  /\ loc = NoLocals
  /\ results = << >>
  /\ ret = NoRet
  /\ pl_calls = << >>
  /\ power_calls = << >>
  /\ observed = NotObserving
  /\ lut_file = NoFile
  /\ lut_calls = << >>

CallSinr ==
  /\ call.fn = "estimate_sinr"
  /\ pc = "idle"
  /\ ret' = estimate_sinr(call.received_power, call.interference,
                          call.noise, call.simulation_parameters)
  /\ pc' = "returned"
  /\ UNCHANGED << manager, lut_file, lut_calls, observed, call, idx, loc, results, pl_calls, power_calls >>

NextSinr == CallSinr

SpecSinr == InitSinr /\ [][NextSinr]_vars

----------------------------------------------------------------------------
(* estimate_average_capacity on its own: applied to every bandwidth,        *)
(* spectral efficiency and site area of the pools                           *)

\* channel bandwidths in MHz
BandwidthPool == {5, 10, 20, 40}

\* spectral efficiencies: 0, 1.0, rows of the reference table, and None
SpectralEfficiencyPool ==
  { Return(0), Return(10000), Return(1523), Return(55547), Return(500000),
    ReturnNone }

InitCapacity ==
  /\ \E site_area_data \in SiteAreaPool, ant_type \in ANT_TYPE :
       Constructed(<< TransmitterData >>, << >>, ant_type, << >>,
                   << site_area_data >>, PARAMETERS)
  /\ \E bandwidth \in BandwidthPool,
        spectral_efficiency \in SpectralEfficiencyPool :
       call = [ fn |-> "estimate_average_capacity", bandwidth |-> bandwidth,
                spectral_efficiency |-> spectral_efficiency ]
  /\ pc = "idle"
  /\ idx = 0
  /\ loc = NoLocals
  /\ results = << >>
  /\ ret = NoRet
  /\ pl_calls = << >>
  /\ power_calls = << >>
  /\ observed = NotObserving
  /\ lut_file = NoFile
  /\ lut_calls = << >>

CallAverageCapacity ==
  /\ call.fn = "estimate_average_capacity"
  /\ pc = "idle"
  /\ ret' = estimate_average_capacity(call.bandwidth, call.spectral_efficiency)
  /\ pc' = "returned"
  /\ UNCHANGED << manager, lut_file, lut_calls, observed, call, idx, loc, results, pl_calls, power_calls >>

NextCapacity == CallAverageCapacity

SpecCapacity == InitCapacity /\ [][NextCapacity]_vars

----------------------------------------------------------------------------
(* estimate_noise on its own: applied to every channel bandwidth, on        *)
(* managers of both antenna types and every site area                       *)

\* the channel bandwidths of the 4G and 5G bands, in MHz
ChannelBandwidths == {5, 10, 15, 20, 25, 30, 40, 50, 60, 70, 80, 90, 100}

InitNoise ==
  /\ \E site_area_data \in SiteAreaPool, ant_type \in ANT_TYPE :
       Constructed(<< TransmitterData >>, << >>, ant_type, << >>,
                   << site_area_data >>, PARAMETERS)
  /\ \E bandwidth \in ChannelBandwidths :
       call = [fn |-> "estimate_noise", bandwidth |-> bandwidth]
  /\ pc = "idle"
  /\ idx = 0
  /\ loc = NoLocals
  /\ results = << >>
  /\ ret = NoRet
  /\ pl_calls = << >>
  /\ power_calls = << >>
  /\ observed = NotObserving
  /\ lut_file = NoFile
  /\ lut_calls = << >>

\* k = 1.38e-23, t = 290, BW = bandwidth*1000000
CallEstimateNoise ==
  /\ call.fn = "estimate_noise"
  /\ pc = "idle"
  /\ loc' = estimate_noise_locals(call.bandwidth)
  /\ pc' = "noise"
  /\ UNCHANGED << manager, lut_file, lut_calls, observed, call, idx, results, ret, pl_calls, power_calls >>

\* noise = 10 * np.log10(k * t * 1000) + 1.5 + 10 * np.log10(BW); return noise
ReturnNoise ==
  /\ call.fn = "estimate_noise"
  /\ pc = "noise"
  /\ ret' = Return(estimate_noise(call.bandwidth))
  /\ pc' = "returned"
  /\ UNCHANGED << manager, lut_file, lut_calls, observed, call, idx, loc, results, pl_calls, power_calls >>

NextNoise == CallEstimateNoise \/ ReturnNoise

SpecNoise == InitNoise /\ [][NextNoise]_vars

----------------------------------------------------------------------------
(* The lookup table by frequency: run_simulator writes the percentile       *)
(* results of each band and site radius to one csv file                     *)

\* the calls made on the file
MaxWrites == 3

\* the header row of the table
LutHeader ==
  << "confidence_interval", "environment", "inter_site_distance_m",
     "site_area_km2", "sites_per_km2", "frequency_GHz", "bandwidth_MHz",
     "number_of_sectors", "generation", "ant_type", "transmission_type",
     "path_loss_dB", "received_power_dBm", "interference_dBm", "sinr_dB",
     "spectral_efficiency_bps_hz", "capacity_mbps", "capacity_mbps_km2" >>

\* Variant of write_frequency_lookup_table that opens the file for writing
\* whether it exists or not: the opening mode C30 is tested against
write_frequency_lookup_table_truncating(file, percentile_site_results, environment, site_radius, frequency, bandwidth, generation, ant_type, tranmission_type, parameters) ==
  LET inter_site_distance == site_radius * 2
      site_area_km2 ==
        (inter_site_distance * inter_site_distance * 866) \div 1000
      sites_per_km2 == 100000000 \div site_area_km2
      sectors == parameters.sectorization
      opened == [exists |-> TRUE, rows |-> << LutHeader >>]
      Row(result) ==
        << ToString(result.confidence_interval), environment,
           ToString(inter_site_distance), ToString(site_area_km2),
           ToString(sites_per_km2), ToString(frequency), ToString(bandwidth),
           ToString(sectors), generation, ant_type, tranmission_type,
           ToString(result.path_loss), ToString(result.received_power),
           ToString(result.interference), ToString(result.sinr),
           ToString(result.spectral_efficiency),
           ToString(result.capacity_mbps),
           ToString(result.capacity_mbps_km2 * sectors) >>
  IN  [opened EXCEPT !.rows = @ \o [i \in DOMAIN percentile_site_results |->
                              Row(percentile_site_results[i])]]

\* write_frequency_lookup_table on the file of the directory and filename
\* given, with the results passed: the file as the call leaves it. site_area_km2 is in millionths of
\* a km2 (sqrt(3)/2 taken as 0.866), sites_per_km2 in hundredths, and a row
\* holds the text of each value.
write_frequency_lookup_table(file, percentile_site_results, environment, site_radius, frequency, bandwidth, generation, ant_type, tranmission_type, parameters) ==
  LET inter_site_distance == site_radius * 2
      site_area_km2 ==
        (inter_site_distance * inter_site_distance * 866) \div 1000
      sites_per_km2 == 100000000 \div site_area_km2
      sectors == parameters.sectorization
      opened ==
        IF ~ file.exists
        THEN [exists |-> TRUE, rows |-> << LutHeader >>]
        ELSE file
      Row(result) ==
        << ToString(result.confidence_interval), environment,
           ToString(inter_site_distance), ToString(site_area_km2),
           ToString(sites_per_km2), ToString(frequency), ToString(bandwidth),
           ToString(sectors), generation, ant_type, tranmission_type,
           ToString(result.path_loss), ToString(result.received_power),
           ToString(result.interference), ToString(result.sinr),
           ToString(result.spectral_efficiency),
           ToString(result.capacity_mbps),
           ToString(result.capacity_mbps_km2 * sectors) >>
  IN  [opened EXCEPT !.rows = @ \o [i \in DOMAIN percentile_site_results |->
                              Row(percentile_site_results[i])]]

\* one entry of obtain_percentile_values' output
PercentileResult(confidence_interval, sinr, capacity_mbps_km2) ==
  [ confidence_interval |-> confidence_interval,
    path_loss |-> 9000 + 10 * confidence_interval,
    received_power |-> -6000 - 10 * confidence_interval,
    interference |-> -7000 + 10 * confidence_interval,
    sinr |-> sinr,
    spectral_efficiency |-> 6016,
    capacity_mbps |-> capacity_mbps_km2 \div 4,
    capacity_mbps_km2 |-> capacity_mbps_km2 ]

\* the percentile results of a call: one for each of the confidence
\* intervals 5, 50 and 95, one for a single interval, and none
PercentileResultLists ==
  { << PercentileResult(5, 1200, 480000), PercentileResult(50, 600, 240000),
       PercentileResult(95, 20, 120000) >>,
    << PercentileResult(50, 600, 240000) >>,
    << >> }

\* the first site radii of the micro sites
SiteRadii == {40, 90}

InitLookupTable ==
  /\ IdleManager
  /\ Idle

\* write_frequency_lookup_table(percentile_site_results, ...,
\*   results_directory, 'capacity_lut_by_frequency.csv', parameters)
WriteFrequencyLookupTable ==
  /\ Len(lut_calls) < MaxWrites
  /\ \E percentile_site_results \in PercentileResultLists,
        site_radius \in SiteRadii, sp \in SPECTRUM_PORTFOLIO :
       /\ call' = [ fn |-> "write_frequency_lookup_table",
                    results |-> percentile_site_results,
                    environment |-> "urban", site_radius |-> site_radius,
                    frequency |-> sp.frequency, bandwidth |-> sp.bandwidth,
                    generation |-> sp.generation,
                    ant_type |-> transmitter.ant_type,
                    tranmission_type |-> sp.transmission_type,
                    parameters |-> PARAMETERS ]
       /\ lut_file' =
            write_frequency_lookup_table(
              lut_file, percentile_site_results, "urban", site_radius,
              sp.frequency, sp.bandwidth, sp.generation, transmitter.ant_type,
              sp.transmission_type, PARAMETERS)
  /\ lut_calls' = Append(lut_calls, call')
  /\ UNCHANGED << manager, pc, idx, loc, results, ret, pl_calls, power_calls,
                  observed >>

NextLookupTable == WriteFrequencyLookupTable

SpecLookupTable == InitLookupTable /\ [][NextLookupTable]_vars

----------------------------------------------------------------------------
(* Properties                                                              *)

\* The data-model invariant of a table: the rows of a generation are
\* consecutive and their thresholds strictly increasing
LutInvariant(lut) ==
  \A i, j \in DOMAIN lut :
    (i < j /\ lut[i].generation = lut[j].generation) =>
      /\ lut[i].sinr < lut[j].sinr
      /\ \A m \in i..j : lut[m].generation = lut[i].generation

\* the rows of a generation, as indices
Block(lut, generation) == { i \in DOMAIN lut : lut[i].generation = generation }

SEReturned ==
  /\ call.fn = "estimate_spectral_efficiency"
  /\ pc = "returned"

\* C1: every distance passed to path_loss_calculator, for the serving
\* transmitter and for every interfering transmitter, is at least 20 m.
C1_DistanceAtLeast20 ==
  \A i \in DOMAIN pl_calls : pl_calls[i].distance >= 20

\* C2: on a table grouped by generation and sorted within each generation,
\* when two consecutive rows (lower, upper) of the requested generation
\* satisfy lower.sinr <= sinr < upper.sinr, the lookup returns lower's
\* spectral efficiency.
C2_IntervalLookup ==
  (SEReturned /\ LutInvariant(Lut(call.lut))) =>
    \A i \in DOMAIN Lut(call.lut) :
      ( /\ i + 1 \in DOMAIN Lut(call.lut)
        /\ Lut(call.lut)[i].generation = call.generation
        /\ Lut(call.lut)[i + 1].generation = call.generation
        /\ Lut(call.lut)[i].sinr <= call.sinr
        /\ call.sinr < Lut(call.lut)[i + 1].sinr )
      => ret = Return(Lut(call.lut)[i].spectral_efficiency)

\* C3: on a table meeting the data-model invariant, a SINR at or above the
\* greatest threshold of the requested generation yields the spectral
\* efficiency of that generation's greatest-threshold row.
C3_Saturation ==
  (SEReturned /\ LutInvariant(Lut(call.lut))) =>
    \A i \in Block(Lut(call.lut), call.generation) :
      ( /\ \A j \in Block(Lut(call.lut), call.generation) :
             Lut(call.lut)[j].sinr <= Lut(call.lut)[i].sinr
        /\ call.sinr >= Lut(call.lut)[i].sinr )
      => ret = Return(Lut(call.lut)[i].spectral_efficiency)

\* C4: on a table meeting the data-model invariant, a SINR strictly below the
\* least threshold of the requested generation's own rows yields 0.
C4_Floor ==
  ( /\ SEReturned
    /\ LutInvariant(Lut(call.lut))
    /\ Block(Lut(call.lut), call.generation) # {}
    /\ \A j \in Block(Lut(call.lut), call.generation) :
         call.sinr < Lut(call.lut)[j].sinr )
  => ret = Return(0)

\* C5: when no row of the table carries the requested generation, the lookup
\* raises an error: it returns neither a number nor None.
C5_LookupError ==
  (SEReturned /\ Block(Lut(call.lut), call.generation) = {}) =>
    ret.kind = "raise"

LinkBudgetCall == call.fn = "estimate_link_budget"

\* C6: a manager built with no interfering transmitter never returns a result
\* list from estimate_link_budget, whatever its receivers (none included):
\* the call raises.
C6_NoInterferersRaises ==
  (LinkBudgetCall /\ interfering_transmitters = << >>) => pc # "returned"

\* C7: estimate_link_budget returns one record per entry of the receiver map
\* in the map's order: as many records as receivers, the i-th with the id and
\* the coordinates of the i-th receiver; and while the loop runs the records
\* so far are those of the receivers before the current one.
C7_OneRecordPerReceiver ==
  LinkBudgetCall =>
    /\ pc = "returned" =>
         /\ Len(ret.results) = Len(receivers)
         /\ \A i \in DOMAIN receivers :
              /\ ret.results[i].id = receivers[i].id
              /\ ret.results[i].receiver_x = receivers[i].coordinates[1]
              /\ ret.results[i].receiver_y = receivers[i].coordinates[2]
    /\ pc \notin {"returned", "raised"} =>
         /\ Len(results) = idx - 1
         /\ \A i \in DOMAIN results :
              /\ results[i].id = receivers[i].id
              /\ results[i].receiver_x = receivers[i].coordinates[1]
              /\ results[i].receiver_y = receivers[i].coordinates[2]

\* a call returned records for two receivers at different places
C7_Witness ==
  /\ LinkBudgetCall
  /\ pc = "returned"
  /\ Len(ret.results) = 2
  /\ ret.results[1].id # ret.results[2].id
  /\ ret.results[1].receiver_x # ret.results[2].receiver_x

\* C8: every estimate_received_power call, for the serving transmitter and
\* for each interfering transmitter, returns
\* EIRP - path_loss - receiver.misc_losses + receiver.gain - receiver.losses
\* with the EIRP power + gain - losses of the transmitter passed to it, in dB
\* throughout.
C8_ReceivedPowerFormula ==
  \A i \in DOMAIN power_calls :
    LET c == power_calls[i]
        EIRP == c.transmitter.power + c.transmitter.gain - c.transmitter.losses
    IN  c.received_power =
          EIRP - c.path_loss - c.receiver.misc_losses + c.receiver.gain
            - c.receiver.losses

\* the function has been called for the serving transmitter and for an
\* interfering transmitter, with a receiver whose gain, losses and
\* misc_losses all differ
C8_Witness ==
  /\ \E i \in DOMAIN power_calls :
       /\ power_calls[i].transmitter = transmitter
       /\ power_calls[i].receiver.gain # power_calls[i].receiver.losses
       /\ power_calls[i].receiver.misc_losses # power_calls[i].receiver.losses
  /\ \E i \in DOMAIN power_calls :
       /\ power_calls[i].transmitter.id # transmitter.id
       /\ power_calls[i].receiver.misc_losses # 0

SinrReturned ==
  /\ call.fn = "estimate_sinr"
  /\ pc = "returned"

\* the linear magnitudes of the interference argument of the call
LinearInterference ==
  [i \in DOMAIN call.interference |-> Pow10(call.interference[i])]

\* kept holds the largest Len(kept) elements of list, each taken once
IsLargest(kept, list) ==
  \E f \in [DOMAIN kept -> DOMAIN list] :
    /\ \A i, j \in DOMAIN kept : i # j => f[i] # f[j]
    /\ \A i \in DOMAIN kept : kept[i] = list[f[i]]
    /\ \A j \in DOMAIN list :
         (\A i \in DOMAIN kept : f[i] # j) =>
           \A i \in DOMAIN kept : ~ FLess(kept[i], list[j])

\* C9: estimate_sinr keeps the three largest linear interference magnitudes
\* (all of them when there are at most three) and returns their sum times
\* network_load / 100; the interference sum and the SINR are the same for
\* every order of the interferer list, and the same after adding an
\* interferer no stronger than the third strongest.
C9_TopThreeInterferers ==
  SinrReturned =>
    LET n == Len(call.interference)
        kept == ret.interference_list
        load == call.simulation_parameters.network_load
    IN  /\ Len(kept) = IF n < 3 THEN n ELSE 3
        /\ IsLargest(kept, LinearInterference)
        /\ ret.raw_sum_of_interference = FTimesPercent(FSum(kept), load)
        /\ \A p \in Permutations(1..n) :
             LET other == estimate_sinr(call.received_power,
                                        [i \in 1..n |-> call.interference[p[i]]],
                                        call.noise, call.simulation_parameters)
             IN  /\ other.raw_sum_of_interference = ret.raw_sum_of_interference
                 /\ other.sinr = ret.sinr
        /\ \A v \in InterferencePool :
             (n >= 3 /\ \A i \in DOMAIN kept : ~ FLess(kept[i], Pow10(v))) =>
               LET more == estimate_sinr(call.received_power,
                                         Append(call.interference, v),
                                         call.noise, call.simulation_parameters)
               IN  /\ more.raw_sum_of_interference = ret.raw_sum_of_interference
                   /\ more.sinr = ret.sinr

\* four interferers given weakest first, of three different strengths: one
\* is dropped and the kept ones are not the first three
C9_Witness ==
  /\ SinrReturned
  /\ Len(call.interference) = 4
  /\ call.interference[1] = -8000
  /\ call.interference[4] = -7200
  /\ Len(ret.interference_list) = 3
  /\ ret.interference_list[1] = Pow10(-7200)
  /\ ret.interference_list # SubSeq(LinearInterference, 1, 3)

\* C10 as stated: the received power, each interference value and the noise
\* become 10^(value/10), so that ten times the logarithm of the linear
\* magnitude is the value; 10 becomes 10 and 20 becomes 100.
C10_TenthExponent ==
  SinrReturned =>
    /\ 10 * RoundLog10(ret.raw_received_power, FOne) = call.received_power
    /\ 10 * RoundLog10(ret.raw_noise, FOne) = call.noise
    /\ \A i \in DOMAIN ret.interference_list :
         \E j \in DOMAIN call.interference :
           10 * RoundLog10(ret.interference_list[i], FOne) = call.interference[j]
    /\ call.received_power = 1000 =>
         ret.raw_received_power = [m |-> 1000, e |-> -2]
    /\ call.received_power = 2000 =>
         ret.raw_received_power = [m |-> 1000, e |-> -1]

\* C10 amended: the received power, each interference value and the noise
\* become 10^value, so that the logarithm of the linear magnitude is the
\* value; 1 becomes 10 and 2 becomes 100 (and 10 becomes 10^10).
C10_PlainExponent ==
  SinrReturned =>
    /\ RoundLog10(ret.raw_received_power, FOne) = call.received_power
    /\ RoundLog10(ret.raw_noise, FOne) = call.noise
    /\ \A i \in DOMAIN ret.interference_list :
         \E j \in DOMAIN call.interference :
           RoundLog10(ret.interference_list[i], FOne) = call.interference[j]
    /\ call.received_power = 100 =>
         ret.raw_received_power = [m |-> 1000, e |-> -2]
    /\ call.received_power = 200 =>
         ret.raw_received_power = [m |-> 1000, e |-> -1]
    /\ call.received_power = 1000 =>
         ret.raw_received_power = [m |-> 1000, e |-> 7]

\* a call with received power 10 and some interference has returned
C10_Witness ==
  /\ SinrReturned
  /\ call.received_power = 1000
  /\ call.interference # << >>
  /\ ret.raw_received_power = [m |-> 1000, e |-> 7]

CapacityReturned ==
  /\ call.fn = "estimate_average_capacity"
  /\ pc = "returned"
  /\ ret.kind = "value"

\* x is y / (area / 1e6) to the resolution of the representation: the
\* quotient of y * 1e6 by area, rounded down
IsPerKm2(x, y, area) ==
  LET g == Gcd(area, 1000000)
      a == area \div g
      b == 1000000 \div g
  IN  x * a <= y * b /\ y * b < (x + 1) * a

\* C11: estimate_average_capacity returns capacity_mbps = bandwidth (MHz)
\* times spectral efficiency and capacity_mbps_km2 = capacity_mbps divided by
\* the site area in km2; 20 MHz at 1.0 bit/s/Hz is 20.0 Mbps, and a spectral
\* efficiency of 0 gives capacity 0.
C11_CapacityFormula ==
  CapacityReturned =>
    /\ ret.capacity_mbps = call.bandwidth * call.spectral_efficiency.value
    /\ IsPerKm2(ret.capacity_mbps_km2, ret.capacity_mbps, site_area.area)
    /\ (call.bandwidth = 20 /\ call.spectral_efficiency.value = 10000) =>
         ret.capacity_mbps = 200000
    /\ call.spectral_efficiency.value = 0 =>
         ret.capacity_mbps = 0 /\ ret.capacity_mbps_km2 = 0

\* 20 MHz at 1.0 bit/s/Hz over a quarter of a km2: 20 Mbps and 80 Mbps/km2
C11_Witness ==
  /\ CapacityReturned
  /\ call.bandwidth = 20
  /\ call.spectral_efficiency = Return(10000)
  /\ site_area.area = 250000
  /\ ret.capacity_mbps = 200000
  /\ ret.capacity_mbps_km2 = 800000

\* the records of the call so far and, once it has returned, the records
\* returned
Records == IF pc = "returned" THEN ret.results ELSE results

\* C12: in every result record of estimate_link_budget, for a site area
\* above 0, capacity_mbps_km2 times the site area in km2 is capacity_mbps,
\* the site area being the polygon's area as computed at construction.
C12_ArealCapacityRoundTrip ==
  (LinkBudgetCall /\ site_area.area > 0) =>
    /\ site_area.area = Abs(ShoelaceSum(site_area.coordinates, 1)) \div 2
    /\ \A i \in DOMAIN Records :
         LET g == Gcd(site_area.area, 1000000)
         IN  Records[i].capacity_mbps_km2 * (site_area.area \div g)
               = Records[i].capacity_mbps * (1000000 \div g)

\* a record with a capacity above 0 was returned for a site area other than
\* 1 km2
C12_Witness ==
  /\ LinkBudgetCall
  /\ pc = "returned"
  /\ site_area.area \notin {0, 1000000}
  /\ \E i \in DOMAIN ret.results :
       /\ ret.results[i].capacity_mbps > 0
       /\ ret.results[i].capacity_mbps_km2 # ret.results[i].capacity_mbps

\* C13: with the reference table and generation 4G or 5G the lookup is
\* non-decreasing in the SINR: a greater or equal SINR never yields a smaller
\* spectral efficiency, below the least threshold, at every threshold and
\* above the greatest one.
C13_MonotoneInSinr ==
  ( /\ SEReturned
    /\ call.lut = "reference"
    /\ call.generation \in {"4G", "5G"} )
  => /\ ret.kind = "value"
     /\ \A sinr2 \in SinrPool :
          sinr2 >= call.sinr =>
            LET other == estimate_spectral_efficiency(
                           sinr2, call.generation, MODULATION_AND_CODING_LUT)
            IN  other.kind = "value" /\ other.value >= ret.value

\* the lookup returned for a SINR exactly at the greatest threshold of the
\* reference table, where SINRs below, at and above it are compared
C13_Witness ==
  /\ SEReturned
  /\ call.lut = "reference"
  /\ call.generation = "5G"
  /\ call.sinr = 2270
  /\ ret = Return(500000)
  /\ {2269, 2271, -671, -670} \subseteq SinrPool

\* C14: estimate_link_budget leaves the manager as constructed: no step of
\* any call, returning or raising, changes the primary transmitter, the
\* interfering-transmitter map, the receiver map, the site area or a field of
\* any of their entities.
C14_ManagerUnchanged ==
  [][ /\ transmitter' = transmitter
      /\ interfering_transmitters' = interfering_transmitters
      /\ receivers' = receivers
      /\ site_area' = site_area ]_vars

\* a call that went through the whole pipeline for a receiver and raised at
\* its last stage, in a manager with receivers and interfering transmitters
C14_Witness ==
  /\ LinkBudgetCall
  /\ pc = "raised"
  /\ ret.exc = "TypeError"
  /\ Len(receivers) = 2
  /\ Len(interfering_transmitters) >= 2
  /\ Len(power_calls) >= 3

\* C15: a call with the manager, arguments, table and parameters of an
\* earlier call has the outcome of that call, the same list of records (path
\* loss, SINR, capacity and every other field of every receiver) or the same
\* error, whatever calls were made in between.
C15_Deterministic ==
  ( /\ LinkBudgetCall
    /\ pc \in {"returned", "raised"}
    /\ observed.seen
    /\ call = observed.call )
  => ret = observed.ret

\* a call returned two records, the same as the first call did, after a call
\* with other arguments
C15_Witness ==
  /\ LinkBudgetCall
  /\ pc = "returned"
  /\ observed.seen
  /\ observed.between
  /\ call = observed.call
  /\ Len(ret.results) = 2
  /\ ret.results[1].sinr # ret.results[2].sinr

\* The record of one receiver r as a function of r, the transmitters, the
\* site area and the arguments of the call, composed from the stages of the
\* pipeline with nothing carried over from another receiver
RecordOf(r) ==
  LET pl == estimate_path_loss(r, call.frequency, call.environment,
                               call.simulation_parameters)
      received_power == estimate_received_power(transmitter, r, pl.path_loss)
      inf == estimate_interference(r, call.frequency, call.environment,
                                   call.simulation_parameters)
      noise == estimate_noise(call.bandwidth)
      s == estimate_sinr(received_power, inf.interference, noise,
                         call.simulation_parameters)
      se == estimate_spectral_efficiency(s.sinr, call.generation,
                                         Lut(call.lut))
      cap == estimate_average_capacity(call.bandwidth, se)
  IN  [ id |-> r.id,
        path_loss |-> pl.path_loss,
        r_model |-> pl.model,
        type_of_sight |-> pl.type_of_sight,
        ave_inf_pl |-> inf.ave_pl,
        received_power |-> s.received_power,
        distance |-> pl.strt_distance,
        interference |-> NpLog10(s.raw_sum_of_interference),
        i_model |-> inf.model,
        network_load |-> call.simulation_parameters.network_load,
        ave_distance |-> inf.ave_distance,
        noise |-> s.noise,
        i_plus_n |-> NpLog10(s.i_plus_n),
        tranmission_type |-> call.tranmission_type,
        sinr |-> s.sinr,
        spectral_efficiency |-> se.value,
        capacity_mbps |-> cap.capacity_mbps,
        capacity_mbps_km2 |-> cap.capacity_mbps_km2,
        receiver_x |-> r.coordinates[1],
        receiver_y |-> r.coordinates[2] ]

C17_NumericGuards ==
  LinkBudgetCall =>
    /\ \A i \in DOMAIN Records :
         /\ ~ Records[i].interference.neg_inf
         /\ ~ Records[i].i_plus_n.neg_inf
    /\ ( /\ Len(receivers) > 0
         /\ \/ call.simulation_parameters.network_load = 0
            \/ site_area.area = 0 )
       => pc # "returned"

\* the twenty fields of a result record
RecordFields ==
  { "id", "path_loss", "r_model", "type_of_sight", "ave_inf_pl",
    "received_power", "distance", "interference", "i_model", "network_load",
    "ave_distance", "noise", "i_plus_n", "tranmission_type", "sinr",
    "spectral_efficiency", "capacity_mbps", "capacity_mbps_km2",
    "receiver_x", "receiver_y" }

\* the propagation model raised during the call
CollaboratorRaised ==
  \E i \in DOMAIN pl_calls :
    UnsupportedCombination(pl_calls[i].environment, pl_calls[i].type_of_sight)

\* C18: each receiver yields a full record or an error: every record has
\* its twenty fields, each set from a stage that returned a value (the
\* spectral efficiency is never None); and when the propagation model raises
\* for some receiver the error leaves estimate_link_budget, that receiver
\* gets no record and no list is returned.
C18_FullRecordOrError ==
  LinkBudgetCall =>
    /\ \A i \in DOMAIN Records : DOMAIN Records[i] = RecordFields
    /\ pc = "append" =>
         /\ loc.spectral_efficiency.kind = "value"
         /\ loc.r_model \in {"model_los", "model_nlos"}
         /\ loc.i_model \in {"model_los", "model_nlos"}
         /\ loc.type_of_sight \in {"los", "nlos"}
    /\ CollaboratorRaised =>
         /\ pc = "raised"
         /\ ret.kind = "raise"
         /\ ret.exc = "PathLossError"
         /\ ret.results = << >>
         /\ results = << >>

\* the propagation model raised after a first receiver had gone through the
\* interference stage: the error came with a later receiver
C18_Witness ==
  /\ LinkBudgetCall
  /\ pc = "raised"
  /\ ret.exc = "PathLossError"
  /\ CollaboratorRaised
  /\ Len(interfering_transmitters) >= 1
  /\ Len(power_calls) >= 1 + Len(interfering_transmitters)

\* the calls of the propagation model and of estimate_received_power for one
\* receiver: one for the serving transmitter, then one for each interfering
\* transmitter in the order of the map
CallsPerReceiver == 1 + Len(interfering_transmitters)

\* C19: the i_model of a record is the model name the propagation model
\* returned for the last interfering transmitter of the map, in the map's
\* order, whichever interfering transmitter is the first or the strongest.
C19_LastInterfererModel ==
  LinkBudgetCall =>
    \A i \in DOMAIN Records :
      Records[i].i_model
        = path_loss_calculator(pl_calls[i * CallsPerReceiver]).model

\* a record whose i_model is that of the last interfering transmitter, beyond
\* line of sight, while the first one, in line of sight, is the strongest
C19_Witness ==
  /\ LinkBudgetCall
  /\ pc = "returned"
  /\ Len(ret.results) >= 1
  /\ Len(interfering_transmitters) >= 2
  /\ ret.results[1].i_model = "model_nlos"
  /\ path_loss_calculator(pl_calls[2]).model = "model_los"
  /\ \A j \in 3..CallsPerReceiver :
       power_calls[2].received_power > power_calls[j].received_power

\* the received powers of the interfering transmitters at the i-th receiver,
\* as estimate_received_power returned them
InterferenceAt(i) ==
  [j \in 1..Len(interfering_transmitters) |->
     power_calls[(i - 1) * CallsPerReceiver + 1 + j].received_power]

\* the three largest of the linear magnitudes of the list, summed and scaled
\* by the network load
ScaledInterference(list) ==
  FTimesPercent(
    FSum(Take(SortDescending([j \in DOMAIN list |-> Pow10(list[j])]), 3)),
    call.simulation_parameters.network_load)

\* C20: a record carries the serving-path received power in dBm unchanged as
\* received_power, the noise floor in dBm as noise, the logarithm of the
\* load-scaled linear interference sum as interference, the logarithm of that
\* sum plus the linear noise as i_plus_n, the clamped serving distance as
\* distance, and the network_load and tranmission_type of the call.
C20_RecordContract ==
  LinkBudgetCall =>
    \A i \in DOMAIN Records :
      LET serving == (i - 1) * CallsPerReceiver + 1
          length == LineStringLength(receivers[i].coordinates,
                                     transmitter.coordinates)
          scaled == ScaledInterference(InterferenceAt(i))
          noise == estimate_noise(call.bandwidth)
      IN  /\ power_calls[serving].transmitter = transmitter
          /\ power_calls[serving].receiver = receivers[i]
          /\ Records[i].received_power = power_calls[serving].received_power
          /\ Records[i].noise = noise
          /\ Records[i].interference = NpLog10(scaled)
          /\ Records[i].i_plus_n = NpLog10(FAdd(scaled, Pow10(noise)))
          /\ Records[i].distance = pl_calls[serving].distance
          /\ Records[i].distance = IF length < 20 THEN 20 ELSE length
          /\ Records[i].network_load = call.simulation_parameters.network_load
          /\ Records[i].tranmission_type = call.tranmission_type

\* the second record of a call, for a receiver nearer than 20 m to the
\* transmitter, with three interfering transmitters and a finite interference
C20_Witness ==
  /\ LinkBudgetCall
  /\ pc = "returned"
  /\ Len(ret.results) = 2
  /\ Len(interfering_transmitters) = 3
  /\ LineStringLength(receivers[2].coordinates, transmitter.coordinates) < 20
  /\ ret.results[2].distance = 20
  /\ ~ ret.results[2].interference.neg_inf
  /\ ~ ret.results[2].i_plus_n.neg_inf
  /\ ret.results[2].received_power # ret.results[2].noise
  /\ ret.results[2].tranmission_type = "8x8"

\* C21: for each receiver the propagation model is invoked once for the
\* serving transmitter with seed_value1 and then once for each interfering
\* transmitter, in the order of the map, with seed_value2; the calls of one
\* receiver are complete before those of the next begin, and a call that
\* returns for R receivers and N interfering transmitters has made R * (1 + N)
\* invocations.
C21_CollaboratorCalls ==
  LinkBudgetCall =>
    /\ \A p \in DOMAIN pl_calls :
         LET r == (p - 1) \div CallsPerReceiver + 1
             j == (p - 1) % CallsPerReceiver
         IN  /\ r <= Len(receivers)
             /\ pl_calls[p].indoor = receivers[r].indoor
             /\ pl_calls[p].ue_height = receivers[r].ue_height
             /\ IF j = 0
                THEN LET length ==
                           LineStringLength(receivers[r].coordinates,
                                            transmitter.coordinates)
                     IN  /\ pl_calls[p].seed_value =
                              call.simulation_parameters.seed_value1
                         /\ pl_calls[p].distance =
                              IF length < 20 THEN 20 ELSE length
                ELSE /\ pl_calls[p].seed_value =
                          call.simulation_parameters.seed_value2
                     /\ pl_calls[p].distance =
                          LineStringLength(
                            receivers[r].coordinates,
                            interfering_transmitters[j].coordinates)
    /\ pc = "returned" =>
         Len(pl_calls) = Len(receivers) * (1 + Len(interfering_transmitters))
    /\ pc \in {"for", "estimate_path_loss"} =>
         Len(pl_calls) = (idx - 1) * CallsPerReceiver
    /\ pc \in {"estimate_received_power", "estimate_interference"} =>
         Len(pl_calls) = (idx - 1) * CallsPerReceiver + 1
    /\ pc \in {"estimate_noise", "estimate_sinr",
               "estimate_spectral_efficiency", "estimate_average_capacity",
               "append"} =>
         Len(pl_calls) = idx * CallsPerReceiver

\* a call returned for two receivers, one of them indoors, and three
\* interfering transmitters at different distances, after eight invocations
\* with two different seeds
C21_Witness ==
  /\ LinkBudgetCall
  /\ pc = "returned"
  /\ Len(receivers) = 2
  /\ Len(interfering_transmitters) = 3
  /\ Len(pl_calls) = 8
  /\ receivers[1].indoor # receivers[2].indoor
  /\ pl_calls[1].seed_value # pl_calls[2].seed_value
  /\ pl_calls[6].distance # pl_calls[7].distance
  /\ pl_calls[7].distance # pl_calls[8].distance

\* C22: in every invocation of the propagation model, for the serving
\* transmitter and for every interfering transmitter, the sight argument is
\* "los" exactly when the distance argument of that invocation is strictly
\* below los_breakpoint_m and "nlos" otherwise, a distance equal to the
\* breakpoint included; the type_of_sight of a record is that of the
\* receiver's serving invocation.
C22_SightClassification ==
  LinkBudgetCall =>
    /\ \A p \in DOMAIN pl_calls :
         pl_calls[p].type_of_sight =
           IF pl_calls[p].distance
                < call.simulation_parameters.los_breakpoint_m
           THEN "los" ELSE "nlos"
    /\ \A i \in DOMAIN Records :
         Records[i].type_of_sight =
           pl_calls[(i - 1) * CallsPerReceiver + 1].type_of_sight

\* a call returned two records, the first for a receiver exactly at the
\* breakpoint distance from the serving transmitter and the second for a
\* receiver in its line of sight and exactly at the breakpoint distance from
\* an interfering transmitter
C22_Witness ==
  /\ LinkBudgetCall
  /\ pc = "returned"
  /\ Len(ret.results) = 2
  /\ pl_calls[1].distance = call.simulation_parameters.los_breakpoint_m
  /\ ret.results[1].type_of_sight = "nlos"
  /\ ret.results[2].type_of_sight = "los"
  /\ \E p \in (CallsPerReceiver + 2)..Len(pl_calls) :
       /\ pl_calls[p].distance = call.simulation_parameters.los_breakpoint_m
       /\ pl_calls[p].type_of_sight = "nlos"
  /\ \E p \in (CallsPerReceiver + 2)..Len(pl_calls) :
       pl_calls[p].type_of_sight = "los"

\* C23: on a table grouped by generation and sorted within each generation,
\* a value returned by the lookup for generation g is 0 or the spectral
\* efficiency of a row whose generation is g, never that of a row of another
\* generation; the pair made of the last row of one block and the first row
\* of the next yields nothing.
C23_OwnBlockOnly ==
  (SEReturned /\ LutInvariant(Lut(call.lut)) /\ ret.kind = "value") =>
    \/ ret.value = 0
    \/ \E i \in Block(Lut(call.lut), call.generation) :
         Lut(call.lut)[i].spectral_efficiency = ret.value

\* the spectral efficiency 0.1 in the scale of the tables
Placeholder == 1000

\* C26: the initial value 0.1 of the lookup is dead: for every table,
\* generation and SINR the lookup never returns it, and every number it
\* returns is 0 or the spectral efficiency of a row of the table.
C26_PlaceholderDead ==
  SEReturned =>
    /\ ret # Return(Placeholder)
    /\ ret.kind = "value" =>
         \/ ret.value = 0
         \/ \E i \in DOMAIN Lut(call.lut) :
              Lut(call.lut)[i].spectral_efficiency = ret.value

\* the loop ended with no return statement reached, for a generation the
\* table has rows of: the initial value is all that was assigned
C26_Witness ==
  /\ SEReturned
  /\ ret = ReturnNone
  /\ Len(Lut(call.lut)) = 30
  /\ Block(Lut(call.lut), call.generation) # {}

\* the sum of a list of integers
RECURSIVE Sum(_)
Sum(list) == IF list = << >> THEN 0 ELSE Head(list) + Sum(Tail(list))

\* C24: the ave_distance of a record is the sum of the distances to all the
\* interfering transmitters divided by their number, and its ave_inf_pl the
\* sum of their path losses divided by the same number: over every
\* interfering transmitter, not the three strongest only, with the distances
\* that were passed to the propagation model; and the SINR of the record is
\* that of the received powers and the noise alone.
C24_InterferenceAverages ==
  LinkBudgetCall =>
    \A i \in DOMAIN Records :
      LET first == (i - 1) * CallsPerReceiver + 1
          count == Len(interfering_transmitters)
          distances == [j \in 1..count |-> pl_calls[first + j].distance]
          path_losses == [j \in 1..count |-> power_calls[first + j].path_loss]
      IN  /\ count > 0
          /\ \A j \in 1..count :
               /\ distances[j] =
                    LineStringLength(receivers[i].coordinates,
                                     interfering_transmitters[j].coordinates)
               /\ path_losses[j] =
                    path_loss_calculator(pl_calls[first + j]).path_loss
          /\ Records[i].ave_distance = RoundDiv(100 * Sum(distances), count)
          /\ Records[i].ave_inf_pl = RoundDiv(Sum(path_losses), count)
          /\ Records[i].sinr =
               estimate_sinr(power_calls[first].received_power,
                             InterferenceAt(i), estimate_noise(call.bandwidth),
                             call.simulation_parameters).sinr

\* a record of a manager with four interfering transmitters, one of them
\* nearer than 20 m to the receiver, whose averages are not whole numbers
C24_Witness ==
  /\ LinkBudgetCall
  /\ pc = "returned"
  /\ Len(interfering_transmitters) = 4
  /\ Len(ret.results) >= 1
  /\ \E j \in 2..5 : pl_calls[j].distance < 20
  /\ ret.results[1].ave_distance % 100 # 0
  /\ ret.results[1].ave_inf_pl
       # power_calls[2].path_loss

\* the load-scaled sum of the three largest linear magnitudes of the
\* interference argument of the call
ScaledSum ==
  FTimesPercent(FSum(Take(SortDescending(LinearInterference), 3)),
                call.simulation_parameters.network_load)

\* a value in hundredths and a linear magnitude are the same number
SameNumber(hundredths, linear) ==
  hundredths > 0 /\ FNorm(hundredths, -2) = linear

\* C25 as stated: estimate_sinr returns the received power unchanged, the
\* load-scaled linear interference sum, the linear noise, the scaled sum
\* plus the linear noise, and the logarithm of the linear received power
\* over that sum rounded to two decimals.
C25_LinearNoiseOutput ==
  SinrReturned =>
    /\ ret.received_power = call.received_power
    /\ ret.raw_sum_of_interference = ScaledSum
    /\ SameNumber(ret.noise, Pow10(call.noise))
    /\ ret.i_plus_n = FAdd(ScaledSum, Pow10(call.noise))
    /\ ret.sinr = RoundLog10(Pow10(call.received_power), ret.i_plus_n)

\* C25 amended: estimate_sinr returns the received power unchanged, the
\* load-scaled linear interference sum, the noise unchanged as it was passed
\* (in dBm, not its linear magnitude), the scaled sum plus the linear noise,
\* and the logarithm of the linear received power over that sum rounded to
\* two decimals.
C25_NoiseUnchanged ==
  SinrReturned =>
    /\ ret.received_power = call.received_power
    /\ ret.raw_sum_of_interference = ScaledSum
    /\ ret.noise = call.noise
    /\ ~ SameNumber(ret.noise, Pow10(call.noise))
    /\ ret.i_plus_n = FAdd(ScaledSum, Pow10(call.noise))
    /\ ret.sinr = RoundLog10(Pow10(call.received_power), ret.i_plus_n)

\* a call returned for four interference values at half load and a noise
\* that weighs in the sum
C25_Witness ==
  /\ SinrReturned
  /\ Len(call.interference) = 4
  /\ call.simulation_parameters.network_load = 50
  /\ ret.raw_sum_of_interference # FSum(LinearInterference)
  /\ ret.i_plus_n # ret.raw_sum_of_interference
  /\ ret.noise = -7100

\* the tx_<type>_* parameters of an antenna type
TxParameters(ant_type) ==
  IF ant_type = "macro"
  THEN [ ant_height |-> PARAMETERS.tx_macro_baseline_height,
         power |-> PARAMETERS.tx_macro_power,
         gain |-> PARAMETERS.tx_macro_gain,
         losses |-> PARAMETERS.tx_macro_losses ]
  ELSE [ ant_height |-> PARAMETERS.tx_micro_baseline_height,
         power |-> PARAMETERS.tx_micro_power,
         gain |-> PARAMETERS.tx_micro_gain,
         losses |-> PARAMETERS.tx_micro_losses ]

\* the height, power, gain and losses of a transmitter are those of the type
HasTxParameters(tx, ant_type) ==
  /\ tx.ant_type = ant_type
  /\ tx.ant_height = TxParameters(ant_type).ant_height
  /\ tx.power = TxParameters(ant_type).power
  /\ tx.gain = TxParameters(ant_type).gain
  /\ tx.losses = TxParameters(ant_type).losses

\* C27: a manager constructed with the antenna type macro or micro has a
\* primary transmitter and interfering transmitters of that one type, all with
\* the ant_height, power, gain and losses of the tx_<type>_* parameters; so
\* in every estimate_received_power call the EIRP taken from the primary
\* transmitter is the EIRP of the transmitter passed, and every invocation of
\* the propagation model carries that type and height.
C27_TransmitterLookup ==
  /\ transmitter.ant_type \in ANT_TYPE
  /\ HasTxParameters(transmitter, transmitter.ant_type)
  /\ \A j \in DOMAIN interfering_transmitters :
       HasTxParameters(interfering_transmitters[j], transmitter.ant_type)
  /\ \A i \in DOMAIN power_calls :
       power_calls[i].transmitter.power + power_calls[i].transmitter.gain
           - power_calls[i].transmitter.losses
         = transmitter.power + transmitter.gain - transmitter.losses
  /\ \A p \in DOMAIN pl_calls :
       /\ pl_calls[p].ant_type = transmitter.ant_type
       /\ pl_calls[p].ant_height = transmitter.ant_height

\* a manager of micro transmitters, whose parameters differ from the macro
\* ones, has estimated the received power from an interfering transmitter
C27_Witness ==
  /\ transmitter.ant_type = "micro"
  /\ TxParameters("micro").power # TxParameters("macro").power
  /\ Len(interfering_transmitters) >= 2
  /\ \E i \in DOMAIN power_calls :
       power_calls[i].transmitter.id # transmitter.id

\* two decimals m * 10^e are the same number
SameDecimal(a, b) ==
  LET low == IF a.e < b.e THEN a.e ELSE b.e
  IN  a.m * IntPow10(a.e - low) = b.m * IntPow10(b.e - low)

\* 10*log10(k*T*1000) + NF + 10*log10(bandwidth_MHz * 1e6) in hundredths of
\* a dB, each logarithm to two decimals, NF in hundredths
NoiseFormula(k, T, NF, bandwidth_MHz) ==
  10 * RoundLog10(FNorm(k.m * T, k.e + 3), FOne) + NF
    + 10 * RoundLog10(FNorm(bandwidth_MHz * 1000000, 0), FOne)

\* C28: estimate_noise depends on the bandwidth only and computes
\* 10*log10(k*T*1000) + NF + 10*log10(bandwidth_MHz * 1e6) with the constants
\* k = 1.380649e-23, T = 290 and NF = 1.5 dB; it is strictly increasing in
\* the bandwidth.
C28_NoiseConstants ==
  /\ (call.fn = "estimate_noise" /\ pc \in {"noise", "returned"}) =>
       /\ SameDecimal(loc.k, [m |-> 1380649, e |-> -29])
       /\ loc.t = 290
       /\ loc.BW = call.bandwidth * 1000000
  /\ (call.fn = "estimate_noise" /\ pc = "returned") =>
       /\ ret = Return(NoiseFormula([m |-> 1380649, e |-> -29], 290, 150,
                                    call.bandwidth))
       /\ \A bandwidth \in ChannelBandwidths :
            bandwidth > call.bandwidth =>
              estimate_noise(bandwidth) > ret.value

\* the first and the last position of an identifier in a list of identifiers
FirstOf(ids, id) ==
  CHOOSE i \in DOMAIN ids :
    ids[i] = id /\ \A j \in DOMAIN ids : ids[j] = id => i <= j

LastOf(ids, id) ==
  CHOOSE i \in DOMAIN ids :
    ids[i] = id /\ \A j \in DOMAIN ids : ids[j] = id => j <= i

\* a map holds one entry for each identifier of the list it was filled from:
\* the object of the last record with that identifier, at the place of the
\* identifier's first occurrence
Collapsed(map, ids, objects) ==
  /\ Len(map) = Cardinality({ ids[i] : i \in DOMAIN ids })
  /\ \A a \in DOMAIN map :
       /\ \E i \in DOMAIN ids : ids[i] = map[a].id
       /\ map[a] = objects[LastOf(ids, map[a].id)]
       /\ \A b \in DOMAIN map :
            a < b => FirstOf(ids, map[a].id) < FirstOf(ids, map[b].id)

\* C29: whatever lists of records the manager was constructed from, its maps
\* hold one entry for each distinct ue_id and each distinct site_id, the last
\* record supplied with that identifier, at the place of the identifier's
\* first occurrence; estimate_link_budget returns one record for each
\* distinct ue_id, fewer than the receivers supplied when an identifier
\* repeats, and the interference averages divide by the number of distinct
\* site_ids.
C29_DuplicatesCollapse ==
  (LinkBudgetCall /\ pc = "returned") =>
    /\ \A receiver_list \in SeqsUpTo(ReceiverPool, MaxReceivers) :
         BuildReceivers(receiver_list, PARAMETERS) = receivers =>
           LET ids == [i \in DOMAIN receiver_list |->
                         receiver_list[i].properties.ue_id]
               objects == [i \in DOMAIN receiver_list |->
                             Receiver(receiver_list[i], PARAMETERS)]
               distinct == Cardinality({ ids[i] : i \in DOMAIN ids })
           IN  /\ Collapsed(receivers, ids, objects)
               /\ Len(ret.results) = distinct
               /\ distinct < Len(receiver_list) =>
                    Len(ret.results) < Len(receiver_list)
               /\ \A i \in DOMAIN ret.results :
                    /\ ret.results[i].id = receivers[i].id
                    /\ ret.results[i].receiver_x
                         = objects[LastOf(ids, receivers[i].id)].coordinates[1]
    /\ \A interfering_list \in InterferingLists :
         BuildInterferingTransmitters(interfering_list, transmitter.ant_type,
                                      PARAMETERS)
           = interfering_transmitters =>
           LET ids == [i \in DOMAIN interfering_list |->
                         interfering_list[i].properties.site_id]
               objects == [i \in DOMAIN interfering_list |->
                             InterferingTransmitter(interfering_list[i],
                                                    transmitter.ant_type,
                                                    PARAMETERS)]
               distinct == Cardinality({ ids[i] : i \in DOMAIN ids })
           IN  /\ Collapsed(interfering_transmitters, ids, objects)
               /\ \A i \in DOMAIN ret.results :
                    LET distances ==
                          [j \in DOMAIN interfering_transmitters |->
                             LineStringLength(
                               receivers[i].coordinates,
                               interfering_transmitters[j].coordinates)]
                    IN  ret.results[i].ave_distance
                          = RoundDiv(100 * Sum(distances), distinct)

\* a call returned one record on a manager that two receiver records of one
\* ue_id at different places build, with the two interfering transmitters
\* left of three site records of which two share a site_id
C29_Witness ==
  /\ LinkBudgetCall
  /\ pc = "returned"
  /\ Len(ret.results) = 1
  /\ \E receiver_list \in SeqsUpTo(ReceiverPool, MaxReceivers) :
       /\ Len(receiver_list) = 2
       /\ receiver_list[1] # receiver_list[2]
       /\ BuildReceivers(receiver_list, PARAMETERS) = receivers
       /\ receivers[1].coordinates = receiver_list[2].geometry.coordinates
  /\ interfering_transmitters
       = BuildInterferingTransmitters(RepeatedSites, transmitter.ant_type,
                                      PARAMETERS)
  /\ Len(interfering_transmitters) = 2
  /\ interfering_transmitters[1].coordinates
       = RepeatedSites[3].geometry.coordinates

\* the number of results passed to the first n calls
RECURSIVE ResultsOfFirst(_)
ResultsOfFirst(n) ==
  IF n = 0 THEN 0 ELSE ResultsOfFirst(n - 1) + Len(lut_calls[n].results)

\* C30: starting with no file, after any sequence of
\* write_frequency_lookup_table calls on one directory and filename the file
\* is one header row, the first line, followed by one data row for each
\* percentile result, in the order of the calls and of the results within a
\* call: a file that exists is appended to and never truncated; and the
\* capacity_mbps_km2 of a row is that of the result multiplied by
\* parameters['sectorization'].
C30_OneHeader ==
  /\ lut_calls = << >> => lut_file = NoFile
  /\ lut_calls # << >> =>
       /\ lut_file.exists
       /\ Len(lut_file.rows) = 1 + ResultsOfFirst(Len(lut_calls))
       /\ lut_file.rows[1] = LutHeader
       /\ \A i \in 2..Len(lut_file.rows) : lut_file.rows[i] # LutHeader
       /\ \A c \in DOMAIN lut_calls :
            \A j \in DOMAIN lut_calls[c].results :
              LET row == lut_file.rows[1 + ResultsOfFirst(c - 1) + j]
                  result == lut_calls[c].results[j]
              IN  /\ row[1] = ToString(result.confidence_interval)
                  /\ row[3] = ToString(2 * lut_calls[c].site_radius)
                  /\ row[6] = ToString(lut_calls[c].frequency)
                  /\ row[9] = lut_calls[c].generation
                  /\ row[15] = ToString(result.sinr)
                  /\ row[17] = ToString(result.capacity_mbps)
                  /\ row[18] =
                       ToString(result.capacity_mbps_km2
                                  * lut_calls[c].parameters.sectorization)

\* three calls were made, the first with no result on the file that did not
\* exist, the second with three results and the third with one result of
\* another band
C30_Witness ==
  /\ Len(lut_calls) = 3
  /\ lut_calls[1].results = << >>
  /\ Len(lut_calls[2].results) = 3
  /\ Len(lut_calls[3].results) = 1
  /\ lut_calls[2].frequency # lut_calls[3].frequency
  /\ Len(lut_file.rows) = 5
  /\ lut_calls[3].parameters.sectorization = 3

====
